---- MODULE Spec2Model ----
(***************************************************************************)
(* Scholarita backend: the in-memory search index (backend/search.py), the *)
(* JSON file store it is rebuilt from (backend/storage.py) and the request *)
(* handlers that keep the two together (backend/main.py).                  *)
(*                                                                         *)
(* Text is a sequence of one-character strings.  An Optional value is a    *)
(* sequence of length 0 (None) or 1 (the value).  Time stamps are the      *)
(* integer clock `now`; a larger stamp is a later time.                    *)
(***************************************************************************)
EXTENDS Integers, Sequences, FiniteSets, TLC

VARIABLES
  files,      \* metadata/<id>.json: id -> [valid, paper]
  dirOrder,   \* the order in which the metadata directory lists its files
  pdfs,       \* ids with a pdfs/<id>.pdf
  texts,      \* ids with a text/<id>.txt
  papers,     \* SearchIndex.papers: id -> Paper
  index,      \* SearchIndex.index: term -> sequence of postings
  phase,      \* "boot" before the startup event has run, "serving" after
  now,        \* the clock read by datetime.utcnow(), uuid source
  inflight,   \* import requests suspended at `await import_by_doi`
  resp,       \* the response of the last completed call
  initCalls,  \* history: calls of initialize_search_index
  added       \* history: the papers passed to add_paper since the last clear

vars == <<files, dirOrder, pdfs, texts, papers, index, phase, now, inflight,
          resp, initCalls, added>>

(***************************************************************************)
(* Bounds of the model.                                                    *)
(***************************************************************************)
MaxClock == 2
MaxInflight == 2

None == <<>>
Some(x) == <<x>>

EmptyMap == [k \in {} |-> k]
Put(f, k, v) == [x \in (DOMAIN f) \cup {k} |-> IF x = k THEN v ELSE f[x]]
Drop(f, k) == [x \in (DOMAIN f) \ {k} |-> f[x]]

(***************************************************************************)
(* Characters: str.lower() and the regular expression class \w.            *)
(***************************************************************************)
UpperAlpha == <<"A","B","C","D","E","F","G","H","I","J","K","L","M",
                "N","O","P","Q","R","S","T","U","V","W","X","Y","Z">>
LowerAlpha == <<"a","b","c","d","e","f","g","h","i","j","k","l","m",
                "n","o","p","q","r","s","t","u","v","w","x","y","z">>
Digits == {"0","1","2","3","4","5","6","7","8","9"}
UpperSet == {UpperAlpha[i] : i \in 1..26}
LowerSet == {LowerAlpha[i] : i \in 1..26}

LowerOf ==
  [c \in UpperSet |-> LowerAlpha[CHOOSE i \in 1..26 : UpperAlpha[i] = c]]

LowerChar(c) == IF c \in UpperSet THEN LowerOf[c] ELSE c

lower(text) == [i \in 1..Len(text) |-> LowerChar(text[i])]

WordChars == UpperSet \cup LowerSet \cup Digits \cup {"_"}
IsWordChar(c) == c \in WordChars

\* STOPWORDS of search.py
STOPWORDS ==
  { <<"a">>,
    <<"a", "n">>,
    <<"a", "n", "d">>,
    <<"a", "r", "e">>,
    <<"a", "s">>,
    <<"a", "t">>,
    <<"b", "e">>,
    <<"b", "y">>,
    <<"f", "o", "r">>,
    <<"f", "r", "o", "m">>,
    <<"h", "a", "s">>,
    <<"h", "e">>,
    <<"i", "n">>,
    <<"i", "s">>,
    <<"i", "t">>,
    <<"i", "t", "s">>,
    <<"o", "f">>,
    <<"o", "n">>,
    <<"t", "h", "a", "t">>,
    <<"t", "h", "e">>,
    <<"t", "o">>,
    <<"w", "a", "s">>,
    <<"w", "i", "l", "l">>,
    <<"w", "i", "t", "h">>,
    <<"t", "h", "i", "s">>,
    <<"b", "u", "t">>,
    <<"t", "h", "e", "y">>,
    <<"h", "a", "v", "e">>,
    <<"h", "a", "d">>,
    <<"w", "h", "a", "t">>,
    <<"w", "h", "e", "n">>,
    <<"w", "h", "e", "r", "e">>,
    <<"w", "h", "o">>,
    <<"w", "h", "i", "c", "h">>,
    <<"w", "h", "y">>,
    <<"h", "o", "w">> }

Least(S) == CHOOSE x \in S : \A y \in S : x <= y

\* re.findall(r'\w+', s): the maximal runs of word characters, left to
\* right.  FindWords gives those that start at place i or after it: the
\* next one runs from the first word character to the last one before a
\* character that is none, or before the end.
RECURSIVE FindWords(_, _)
FindWords(s, i) ==
  LET starts == {k \in i..Len(s) : IsWordChar(s[k])}
  IN  IF starts = {} THEN <<>>
      ELSE LET a == Least(starts)
               b == Least({k \in a..Len(s) :
                             k = Len(s) \/ ~IsWordChar(s[k + 1])})
           IN  <<SubSeq(s, a, b)>> \o FindWords(s, b + 1)

findall_words(s) == FindWords(s, 1)

\* KeepWord without the length test
KeepWord_anyLength(word) == word \notin STOPWORDS

\* KeepWord without the stopword test
KeepWord_anyWord(word) == Len(word) > 1

KeepWord(word) == word \notin STOPWORDS /\ Len(word) > 1

tokenize(text) ==
  IF text = <<>>
    THEN <<>>
    ELSE SelectSeq(findall_words(lower(text)), KeepWord)

(***************************************************************************)
(* backend/storage.py.  A store st is [files, dirOrder, pdfs, texts, now]: *)
(* files maps the id of every metadata/<id>.json to [valid, paper] where   *)
(* valid is "ok" (parses as a Paper), "badhl" (parses as PaperMetadata,    *)
(* but its highlights do not validate) or "corrupt" (no JSON object);      *)
(* dirOrder is the order glob("*.json") yields the files in.               *)
(***************************************************************************)
slugify_doi(doi) ==
  [i \in 1..Len(doi) |->
     IF doi[i] = "/" \/ doi[i] = "." THEN "-" ELSE LowerChar(doi[i])]

\* generate_paper_id is only ever called with a DOI (importers.import_by_doi).
generate_paper_id(doi) == slugify_doi(doi)

paper_exists(st, paper_id) == paper_id \in DOMAIN st.files

\* json.load followed by Paper(**data): [exc, val]; exc when either raises.
parse_paper(file) ==
  IF file.valid = "ok"
    THEN [exc |-> FALSE, val |-> Some(file.paper)]
    ELSE [exc |-> TRUE, val |-> None]

\* load_paper without its try block
load_paper_uncaught(st, paper_id) ==
  IF ~paper_exists(st, paper_id)
    THEN [exc |-> FALSE, val |-> None]
    ELSE parse_paper(st.files[paper_id])

\* [exc, val]: val is None or Some(paper); exc is an exception that leaves
\* load_paper (none does: the try block catches every Exception).
load_paper(st, paper_id) ==
  IF ~paper_exists(st, paper_id)
    THEN [exc |-> FALSE, val |-> None]
    ELSE LET r == parse_paper(st.files[paper_id])
         IN  IF r.exc THEN [exc |-> FALSE, val |-> None]
                      ELSE [exc |-> FALSE, val |-> r.val]

\* PaperMetadata(**{k: v for k, v in data.items() if k != 'highlights'})
metadata_of(paper) ==
  [f \in (DOMAIN paper) \ {"highlights"} |-> paper[f]]

\* list.sort(key=date_added, reverse=True): stable, so equal keys keep the
\* order they were met in.
RECURSIVE InsertByDate(_, _)
InsertByDate(sorted, m) ==
  IF sorted = <<>> THEN <<m>>
  ELSE IF Head(sorted).date_added >= m.date_added
    THEN <<Head(sorted)>> \o InsertByDate(Tail(sorted), m)
    ELSE <<m>> \o sorted

RECURSIVE SortByDate(_, _)
SortByDate(ms, acc) ==
  IF ms = <<>> THEN acc
  ELSE SortByDate(Tail(ms), InsertByDate(acc, Head(ms)))

RECURSIVE ReadMetadata(_, _)
ReadMetadata(st, order) ==
  IF order = <<>> THEN <<>>
  ELSE LET file == st.files[Head(order)]
       IN  IF file.valid = "corrupt"
             THEN ReadMetadata(st, Tail(order))
             ELSE <<metadata_of(file.paper)>> \o ReadMetadata(st, Tail(order))

\* list_papers without its sort
list_papers_unsorted(st) == ReadMetadata(st, st.dirOrder)

list_papers(st) == SortByDate(ReadMetadata(st, st.dirOrder), <<>>)

RemoveFrom(s, x) == SelectSeq(s, LAMBDA y : y # x)

\* save_paper stamps date_modified on the object it is given and writes it;
\* [st, paper] is the store and that object afterwards.  A file that is new
\* to the directory comes last in its listing: the place matters to
\* list_papers only among equal date_added, and a paper saved under a new
\* id carries a date_added no other file has.
save_paper(st, paper) ==
  LET stamped == [paper EXCEPT !.date_modified = st.now]
      isNew == ~paper_exists(st, paper.id)
  IN  [st |-> [st EXCEPT
                 !.files = Put(st.files, paper.id,
                               [valid |-> "ok", paper |-> stamped]),
                 !.dirOrder = IF isNew THEN Append(st.dirOrder, paper.id)
                                       ELSE st.dirOrder,
                 !.now = st.now + 1],
       paper |-> stamped]

\* a deletion that looks at the metadata file alone
delete_paper_metadataOnly(st, paper_id) ==
  [st |-> [st EXCEPT
             !.files = Drop(st.files, paper_id),
             !.dirOrder = RemoveFrom(st.dirOrder, paper_id)],
   deleted |-> paper_id \in DOMAIN st.files]

delete_paper(st, paper_id) ==
  [st |-> [st EXCEPT
             !.files = Drop(st.files, paper_id),
             !.dirOrder = RemoveFrom(st.dirOrder, paper_id),
             !.pdfs = st.pdfs \ {paper_id},
             !.texts = st.texts \ {paper_id}],
   deleted |-> paper_id \in DOMAIN st.files
               \/ paper_id \in st.pdfs
               \/ paper_id \in st.texts]

save_pdf(st, paper_id) == [st EXCEPT !.pdfs = st.pdfs \cup {paper_id}]

save_extracted_text(st, paper_id) == [st EXCEPT !.texts = st.texts \cup {paper_id}]

add_highlight(st, paper_id, highlight) ==
  LET r == load_paper(st, paper_id)
  IN  IF r.val = None
        THEN [st |-> st, ok |-> FALSE]
        ELSE LET paper == [r.val[1] EXCEPT !.highlights = Append(@, highlight)]
             IN  [st |-> save_paper(st, paper).st, ok |-> TRUE]

\* The first highlight with this id gets the given fields; only then is the
\* paper saved.
update_highlight(st, paper_id, highlight_id, comment, color, text) ==
  LET r == load_paper(st, paper_id)
  IN  IF r.val = None
        THEN [st |-> st, ok |-> FALSE]
        ELSE LET paper == r.val[1]
                 hits == {i \in 1..Len(paper.highlights) :
                            paper.highlights[i].id = highlight_id}
             IN  IF hits = {}
                   THEN [st |-> st, ok |-> FALSE]
                   ELSE LET i == CHOOSE k \in hits : \A j \in hits : k <= j
                            hl == paper.highlights[i]
                            hl2 == [hl EXCEPT
                                      !.comment = IF comment # None THEN comment[1] ELSE @,
                                      !.color = IF color # None THEN color[1] ELSE @,
                                      !.text = IF text # None THEN text[1] ELSE @]
                            paper2 == [paper EXCEPT !.highlights[i] = hl2]
                        IN  [st |-> save_paper(st, paper2).st, ok |-> TRUE]

delete_highlight(st, paper_id, highlight_id) ==
  LET r == load_paper(st, paper_id)
  IN  IF r.val = None
        THEN [st |-> st, ok |-> FALSE]
        ELSE LET paper == r.val[1]
                 kept == SelectSeq(paper.highlights,
                                   LAMBDA hl : hl.id # highlight_id)
             IN  IF Len(kept) < Len(paper.highlights)
                   THEN [st |-> save_paper(st, [paper EXCEPT !.highlights = kept]).st,
                         ok |-> TRUE]
                   ELSE [st |-> st, ok |-> FALSE]

update_tags(st, paper_id, tags) ==
  LET r == load_paper(st, paper_id)
  IN  IF r.val = None
        THEN [st |-> st, ok |-> FALSE]
        ELSE [st |-> save_paper(st, [r.val[1] EXCEPT !.tags = tags]).st,
              ok |-> TRUE]

InSeq(x, s) == \E i \in 1..Len(s) : s[i] = x

RECURSIVE AddTags(_, _)
AddTags(tags, add_tags) ==
  IF add_tags = <<>> THEN tags
  ELSE AddTags(IF InSeq(Head(add_tags), tags) THEN tags
                                              ELSE Append(tags, Head(add_tags)),
               Tail(add_tags))

RECURSIVE bulk_update_tags(_, _, _, _)
bulk_update_tags(st, paper_ids, add_tags, remove_tags) ==
  IF paper_ids = <<>> THEN [st |-> st, updated_count |-> 0]
  ELSE LET r == load_paper(st, Head(paper_ids))
       IN  IF r.val = None
             THEN bulk_update_tags(st, Tail(paper_ids), add_tags, remove_tags)
             ELSE LET paper == r.val[1]
                      tags == SelectSeq(AddTags(paper.tags, add_tags),
                                        LAMBDA tag : ~InSeq(tag, remove_tags))
                      st2 == save_paper(st, [paper EXCEPT !.tags = tags]).st
                      rest == bulk_update_tags(st2, Tail(paper_ids), add_tags,
                                               remove_tags)
                  IN  [st |-> rest.st, updated_count |-> rest.updated_count + 1]

\* find_paper_by_doi: the slug's file, else the first listed paper whose doi
\* equals this one up to case.
find_paper_by_doi(st, doi) ==
  IF paper_exists(st, slugify_doi(doi))
    THEN Some(slugify_doi(doi))
    ELSE LET ms == list_papers(st)
             hits == {i \in 1..Len(ms) :
                        ms[i].doi # None /\ lower(ms[i].doi[1]) = lower(doi)}
         IN  IF hits = {} THEN None
             ELSE Some(ms[CHOOSE k \in hits : \A j \in hits : k <= j].id)

(***************************************************************************)
(* backend/search.py.  An index ix is [papers, index, added]: papers and   *)
(* index are the two dictionaries of SearchIndex, added is the history of  *)
(* the papers add_paper was called with since the dictionaries were last   *)
(* cleared.  A posting is the tuple the code appends.                      *)
(***************************************************************************)
WeightTitle == 10
\* a tag weighted like the title
WeightTag_asTitle == WeightTitle
WeightTag == 8
WeightHighlight == 6
WeightAbstract == 4
WeightAuthor == 7
DefaultLimit == 50

EmptyIndex == [papers |-> EmptyMap, index |-> EmptyMap, added |-> <<>>]

\* an append that skips a posting the list already holds
AppendPosting_unique(idx, token, entry) ==
  IF token \in DOMAIN idx
    THEN IF \E i \in 1..Len(idx[token]) : idx[token][i] = entry
           THEN idx
           ELSE [idx EXCEPT ![token] = Append(@, entry)]
    ELSE Put(idx, token, <<entry>>)

\* self.index[token].append(entry) on a defaultdict(list)
AppendPosting(idx, token, entry) ==
  IF token \in DOMAIN idx
    THEN [idx EXCEPT ![token] = Append(@, entry)]
    ELSE Put(idx, token, <<entry>>)

\* for token in tokens: self.index[token].append(entry)
RECURSIVE IndexTokens(_, _, _)
IndexTokens(idx, tokens, entry) ==
  IF tokens = <<>> THEN idx
  ELSE IndexTokens(AppendPosting(idx, Head(tokens), entry), Tail(tokens), entry)

RECURSIVE IndexTags(_, _, _)
IndexTags(idx, paper_id, tags) ==
  IF tags = <<>> THEN idx
  ELSE IndexTags(IndexTokens(idx, tokenize(Head(tags)),
                             <<paper_id, "tag", WeightTag>>),
                 paper_id, Tail(tags))

\* highlight postings of three elements, like those of the other fields
RECURSIVE IndexHighlights_noPayload(_, _, _)
IndexHighlights_noPayload(idx, paper_id, highlights) ==
  IF highlights = <<>> THEN idx
  ELSE LET hl == Head(highlights)
           highlight_text ==
             hl.text \o <<" ">> \o (IF hl.comment # None THEN hl.comment[1] ELSE <<>>)
       IN  IndexHighlights_noPayload(
             IndexTokens(idx, tokenize(highlight_text),
                         <<paper_id, "highlight", WeightHighlight>>),
             paper_id, Tail(highlights))

RECURSIVE IndexHighlights(_, _, _)
IndexHighlights(idx, paper_id, highlights) ==
  IF highlights = <<>> THEN idx
  ELSE LET hl == Head(highlights)
           highlight_text ==
             hl.text \o <<" ">> \o (IF hl.comment # None THEN hl.comment[1] ELSE <<>>)
       IN  IndexHighlights(
             IndexTokens(idx, tokenize(highlight_text),
                         <<paper_id, "highlight", WeightHighlight, hl.page, hl.text>>),
             paper_id, Tail(highlights))

RECURSIVE IndexAuthors(_, _, _)
IndexAuthors(idx, paper_id, authors) ==
  IF authors = <<>> THEN idx
  ELSE IndexAuthors(IndexTokens(idx, tokenize(Head(authors).name),
                                <<paper_id, "author", WeightAuthor>>),
                    paper_id, Tail(authors))

\* an add that first drops the postings the document already has
add_paper_purging(ix, paper) ==
  LET kept == [term \in DOMAIN ix.index |->
                 SelectSeq(ix.index[term], LAMBDA e : e[1] # paper.id)]
      i1 == IndexTokens(kept, tokenize(paper.title),
                        <<paper.id, "title", WeightTitle>>)
      i2 == IndexTags(i1, paper.id, paper.tags)
      i3 == IndexHighlights(i2, paper.id, paper.highlights)
      i4 == IF paper.abstract # None /\ paper.abstract[1] # <<>>
              THEN IndexTokens(i3, tokenize(paper.abstract[1]),
                               <<paper.id, "abstract", WeightAbstract>>)
              ELSE i3
      i5 == IndexAuthors(i4, paper.id, paper.authors)
  IN  [papers |-> Put(ix.papers, paper.id, paper),
       index |-> i5,
       added |-> Append(ix.added, paper)]

\* an add that leaves a document it has cached as it is
add_paper_keepingCached(ix, paper) ==
  LET i1 == IndexTokens(ix.index, tokenize(paper.title),
                        <<paper.id, "title", WeightTitle>>)
      i2 == IndexTags(i1, paper.id, paper.tags)
      i3 == IndexHighlights(i2, paper.id, paper.highlights)
      i4 == IF paper.abstract # None /\ paper.abstract[1] # <<>>
              THEN IndexTokens(i3, tokenize(paper.abstract[1]),
                               <<paper.id, "abstract", WeightAbstract>>)
              ELSE i3
      i5 == IndexAuthors(i4, paper.id, paper.authors)
  IN  [papers |-> IF paper.id \in DOMAIN ix.papers
                    THEN ix.papers
                    ELSE Put(ix.papers, paper.id, paper),
       index |-> i5,
       added |-> Append(ix.added, paper)]

add_paper(ix, paper) ==
  LET i1 == IndexTokens(ix.index, tokenize(paper.title),
                        <<paper.id, "title", WeightTitle>>)
      i2 == IndexTags(i1, paper.id, paper.tags)
      i3 == IndexHighlights(i2, paper.id, paper.highlights)
      i4 == IF paper.abstract # None /\ paper.abstract[1] # <<>>
              THEN IndexTokens(i3, tokenize(paper.abstract[1]),
                               <<paper.id, "abstract", WeightAbstract>>)
              ELSE i3
      i5 == IndexAuthors(i4, paper.id, paper.authors)
  IN  [papers |-> Put(ix.papers, paper.id, paper),
       index |-> i5,
       added |-> Append(ix.added, paper)]

\* The loop of rebuild over the listing: [ix, exc]; exc when a load raised,
\* which ends the loop where it stands.
RECURSIVE RebuildLoop(_, _, _)
RebuildLoop(ix, st, listing) ==
  IF listing = <<>> THEN [ix |-> ix, exc |-> FALSE]
  ELSE LET r == load_paper(st, Head(listing).id)
       IN  IF r.exc THEN [ix |-> ix, exc |-> TRUE]
           ELSE IF r.val # None
             THEN RebuildLoop(add_paper(ix, r.val[1]), st, Tail(listing))
             ELSE RebuildLoop(ix, st, Tail(listing))

\* a clear of the cache alone
ClearIndex_papersOnly(ix) ==
  [papers |-> EmptyMap, index |-> ix.index, added |-> <<>>]

\* self.index.clear(); self.papers.clear()
ClearIndex(ix) == EmptyIndex

\* a rebuild left after its clear and the first document of the listing
rebuild_interrupted(ix, st) ==
  LET listing == list_papers(st)
  IN  RebuildLoop(ClearIndex(ix), st,
                  IF listing = <<>> THEN <<>> ELSE <<Head(listing)>>)

rebuild(ix, st) == RebuildLoop(ClearIndex(ix), st, list_papers(st))

(***************************************************************************)
(* SearchIndex.search and the snippet generator.                           *)
(***************************************************************************)
ContextChars == 100
\* a highlight cut like the fallback of the abstract
HighlightSnippetChars_asContext == ContextChars
HighlightSnippetChars == 200
MarkOpen == <<"<", "m", "a", "r", "k", ">">>
MarkClose == <<"<", "/", "m", "a", "r", "k", ">">>
Ellipsis == <<".", ".", ".">>

Min(a, b) == IF a <= b THEN a ELSE b
Max(a, b) == IF a >= b THEN a ELSE b

\* s[:n] of Python for any integer n
Prefix(s, n) ==
  IF n >= 0 THEN SubSeq(s, 1, Min(n, Len(s)))
            ELSE SubSeq(s, 1, Max(0, Len(s) + n))

\* str.find: the 0-based position of the first occurrence of sub, or -1
find(text, sub) ==
  LET at == {i \in 1..(Len(text) - Len(sub) + 1) :
               SubSeq(text, i, i + Len(sub) - 1) = sub}
  IN  IF at = {} THEN -1
      ELSE (CHOOSE i \in at : \A j \in at : i <= j) - 1

\* `sub in text`
contains(text, sub) == find(text, sub) # -1

\* pattern.sub(lambda m: '<mark>' + m.group() + '</mark>', result) for the
\* pattern re.escape(token) with re.IGNORECASE: the leftmost non-overlapping
\* occurrences, scanned from position i.  What stands before the next
\* occurrence is copied, the occurrence is wrapped, and the scan goes on
\* after it.
RECURSIVE SubMark(_, _, _)
SubMark(result, token, i) ==
  LET n == Len(token)
      at == {k \in i..(Len(result) - n + 1) :
               lower(SubSeq(result, k, k + n - 1)) = token}
  IN  IF at = {} THEN SubSeq(result, i, Len(result))
      ELSE LET k == Least(at)
           IN  SubSeq(result, i, k - 1)
               \o MarkOpen \o SubSeq(result, k, k + n - 1) \o MarkClose
               \o SubMark(result, token, k + n)

RECURSIVE HighlightLoop(_, _)
HighlightLoop(result, tokens) ==
  IF tokens = <<>> THEN result
  ELSE HighlightLoop(SubMark(result, Head(tokens), 1), Tail(tokens))

highlight_text(text, query) == HighlightLoop(text, tokenize(query))

\* a window of context_chars on either side of the occurrence
extract_context_fullWidth(text, token, context_chars) ==
  LET pos == find(lower(text), token)
      start == Max(0, pos - context_chars)
      end == Min(Len(text), pos + Len(token) + context_chars)
  IN  IF pos = -1 THEN Prefix(text, context_chars)
      ELSE (IF start > 0 THEN Ellipsis ELSE <<>>)
           \o SubSeq(text, start + 1, end)
           \o (IF end < Len(text) THEN Ellipsis ELSE <<>>)

\* a window that is never marked as cut
extract_context_bareWindow(text, token, context_chars) ==
  LET pos == find(lower(text), token)
      start == Max(0, pos - context_chars \div 2)
      end == Min(Len(text), pos + Len(token) + context_chars \div 2)
  IN  IF pos = -1 THEN Prefix(text, context_chars)
      ELSE SubSeq(text, start + 1, end)

extract_context(text, token, context_chars) ==
  LET pos == find(lower(text), token)
      start == Max(0, pos - context_chars \div 2)
      end == Min(Len(text), pos + Len(token) + context_chars \div 2)
  IN  IF pos = -1 THEN Prefix(text, context_chars)
      ELSE (IF start > 0 THEN Ellipsis ELSE <<>>)
           \o SubSeq(text, start + 1, end)
           \o (IF end < Len(text) THEN Ellipsis ELSE <<>>)

\* the first element of strs that contains token once lowercased, if any
FirstContaining(strs, token) ==
  LET hits == {i \in 1..Len(strs) : contains(lower(strs[i]), token)}
  IN  IF hits = {} THEN None
      ELSE Some(strs[CHOOSE i \in hits : \A j \in hits : i <= j])

AuthorNames(paper) == [i \in 1..Len(paper.authors) |-> paper.authors[i].name]

generate_snippet(paper, match_info, query) ==
  LET field == match_info.field
      token == match_info.token
  IN  CASE field = "title" -> highlight_text(paper.title, query)
        [] field = "tag" ->
             LET tag == FirstContaining(paper.tags, token)
             IN  IF tag = None THEN <<>> ELSE highlight_text(tag[1], query)
        [] field = "highlight" ->
             LET text == IF match_info.text = None THEN <<>> ELSE match_info.text[1]
             IN  highlight_text(Prefix(text, HighlightSnippetChars), query)
        [] field = "abstract" ->
             LET abstract == IF paper.abstract = None THEN <<>> ELSE paper.abstract[1]
             IN  highlight_text(extract_context(abstract, token, ContextChars), query)
        [] field = "author" ->
             LET name == FirstContaining(AuthorNames(paper), token)
             IN  IF name = None THEN <<>> ELSE highlight_text(name[1], query)
        [] OTHER -> <<>>

\* self.index[token] on the defaultdict: a key that is missing is created
IndexGet_subscript(idx, token) ==
  IF token \in DOMAIN idx
    THEN [entries |-> idx[token], idx |-> idx]
    ELSE [entries |-> <<>>, idx |-> Put(idx, token, <<>>)]

\* self.index.get(token, []): [entries, idx], the postings read and the
\* dictionary after the read
IndexGet(idx, token) ==
  [entries |-> IF token \in DOMAIN idx THEN idx[token] ELSE <<>>, idx |-> idx]

\* The postings met by the two nested loops of search, in order, each with
\* the query token it was found under.
RECURSIVE Hits(_, _)
Hits(idx, tokens) ==
  IF tokens = <<>> THEN <<>>
  ELSE LET token == Head(tokens)
           entries == IndexGet(idx, token).entries
       IN  [i \in 1..Len(entries) |-> [token |-> token, entry |-> entries[i]]]
           \o Hits(idx, Tail(tokens))

MatchInfo(hit) ==
  IF hit.entry[2] = "highlight" /\ Len(hit.entry) > 3
    THEN [field |-> hit.entry[2], token |-> hit.token,
          page |-> Some(hit.entry[4]), text |-> Some(hit.entry[5])]
    ELSE [field |-> hit.entry[2], token |-> hit.token,
          page |-> None, text |-> None]

\* scores[paper_id] = weight in place of +=
RECURSIVE Accumulate_assign(_, _)
Accumulate_assign(acc, hits) ==
  IF hits = <<>> THEN acc
  ELSE LET hit == Head(hits)
           paper_id == hit.entry[1]
           weight == hit.entry[3]
           at == {i \in 1..Len(acc) : acc[i].paper_id = paper_id}
           acc2 == IF at = {}
                     THEN Append(acc, [paper_id |-> paper_id, score |-> weight,
                                       match_infos |-> <<MatchInfo(hit)>>])
                     ELSE LET i == CHOOSE k \in at : TRUE
                          IN  [acc EXCEPT ![i].score = weight,
                                          ![i].match_infos = Append(@, MatchInfo(hit))]
       IN  Accumulate_assign(acc2, Tail(hits))

\* scores[paper_id] += weight on a dictionary that keeps insertion order:
\* a sequence of [paper_id, score, match_infos], one per paper, in the order
\* the papers were first met.
RECURSIVE Accumulate(_, _)
Accumulate(acc, hits) ==
  IF hits = <<>> THEN acc
  ELSE LET hit == Head(hits)
           paper_id == hit.entry[1]
           weight == hit.entry[3]
           at == {i \in 1..Len(acc) : acc[i].paper_id = paper_id}
           acc2 == IF at = {}
                     THEN Append(acc, [paper_id |-> paper_id, score |-> weight,
                                       match_infos |-> <<MatchInfo(hit)>>])
                     ELSE LET i == CHOOSE k \in at : TRUE
                          IN  [acc EXCEPT ![i].score = @ + weight,
                                          ![i].match_infos = Append(@, MatchInfo(hit))]
       IN  Accumulate(acc2, Tail(hits))

\* an insertion that puts a document before those of equal score
RECURSIVE InsertByScore_tiesReversed(_, _)
InsertByScore_tiesReversed(sorted, x) ==
  IF sorted = <<>> THEN <<x>>
  ELSE IF Head(sorted).score > x.score
    THEN <<Head(sorted)>> \o InsertByScore_tiesReversed(Tail(sorted), x)
    ELSE <<x>> \o sorted

\* sorted(scores.items(), key=score, reverse=True): stable
RECURSIVE InsertByScore(_, _)
InsertByScore(sorted, x) ==
  IF sorted = <<>> THEN <<x>>
  ELSE IF Head(sorted).score >= x.score
    THEN <<Head(sorted)>> \o InsertByScore(Tail(sorted), x)
    ELSE <<x>> \o sorted

RECURSIVE SortByScore(_, _)
SortByScore(xs, acc) ==
  IF xs = <<>> THEN acc
  ELSE SortByScore(Tail(xs), InsertByScore(acc, Head(xs)))

\* a loop that keeps no seen_fields: a match for every record
RECURSIVE BuildMatches_everyRecord(_, _, _, _)
BuildMatches_everyRecord(paper, match_infos, query, seen_fields) ==
  IF match_infos = <<>> THEN <<>>
  ELSE LET match_info == Head(match_infos)
           snippet == generate_snippet(paper, match_info, query)
           rest == BuildMatches_everyRecord(paper, Tail(match_infos), query,
                                            seen_fields)
       IN  IF snippet # <<>>
             THEN <<[field |-> match_info.field, snippet |-> snippet,
                     page |-> match_info.page]>> \o rest
             ELSE rest

\* a loop without the test `if snippet`
RECURSIVE BuildMatches_emptyKept(_, _, _, _)
BuildMatches_emptyKept(paper, match_infos, query, seen_fields) ==
  IF match_infos = <<>> THEN <<>>
  ELSE LET match_info == Head(match_infos)
           field == match_info.field
       IN  IF field \in seen_fields /\ field # "highlight"
             THEN BuildMatches_emptyKept(paper, Tail(match_infos), query, seen_fields)
             ELSE <<[field |-> field,
                     snippet |-> generate_snippet(paper, match_info, query),
                     page |-> match_info.page]>>
                  \o BuildMatches_emptyKept(paper, Tail(match_infos), query,
                       IF field # "highlight" THEN seen_fields \cup {field}
                                              ELSE seen_fields)

\* the loop over matches_by_paper[paper_id] with its seen_fields set
RECURSIVE BuildMatches(_, _, _, _)
BuildMatches(paper, match_infos, query, seen_fields) ==
  IF match_infos = <<>> THEN <<>>
  ELSE LET match_info == Head(match_infos)
           field == match_info.field
       IN  IF field \in seen_fields /\ field # "highlight"
             THEN BuildMatches(paper, Tail(match_infos), query, seen_fields)
             ELSE LET snippet == generate_snippet(paper, match_info, query)
                  IN  IF snippet # <<>>
                        THEN <<[field |-> field, snippet |-> snippet,
                                page |-> match_info.page]>>
                             \o BuildMatches(paper, Tail(match_infos), query,
                                  IF field # "highlight"
                                    THEN seen_fields \cup {field}
                                    ELSE seen_fields)
                        ELSE BuildMatches(paper, Tail(match_infos), query, seen_fields)

RECURSIVE BuildResults(_, _, _)
BuildResults(ix, sorted_papers, query) ==
  IF sorted_papers = <<>> THEN <<>>
  ELSE LET x == Head(sorted_papers)
       IN  IF x.paper_id \notin DOMAIN ix.papers
             THEN BuildResults(ix, Tail(sorted_papers), query)
             ELSE LET paper == ix.papers[x.paper_id]
                  IN  <<[paper_id |-> paper.id, title |-> paper.title,
                         score |-> x.score,
                         matches |-> BuildMatches(paper, x.match_infos, query, {})]>>
                      \o BuildResults(ix, Tail(sorted_papers), query)

\* a search that cuts the documents to the limit before it sorts them
search_truncateFirst(ix, query, limit) ==
  LET tokens == tokenize(query)
  IN  IF tokens = <<>> THEN <<>>
      ELSE LET acc == Accumulate(<<>>, Hits(ix.index, tokens))
               sorted_papers == SortByScore(Prefix(acc, limit), <<>>)
           IN  BuildResults(ix, sorted_papers, query)

search(ix, query, limit) ==
  LET tokens == tokenize(query)
  IN  IF tokens = <<>> THEN <<>>
      ELSE LET acc == Accumulate(<<>>, Hits(ix.index, tokens))
               sorted_papers == Prefix(SortByScore(acc, <<>>), limit)
           IN  BuildResults(ix, sorted_papers, query)

\* the dictionary after the reads of the loop over the tokens
RECURSIVE IndexAfterReads(_, _)
IndexAfterReads(idx, tokens) ==
  IF tokens = <<>> THEN idx
  ELSE IndexAfterReads(IndexGet(idx, Head(tokens)).idx, Tail(tokens))

\* the SearchIndex a search leaves: its two dictionaries after the reads
\* self.index.get(token, []) and self.papers.get(paper_id)
after_search(ix, query, limit) ==
  [ix EXCEPT !.index = IndexAfterReads(ix.index, tokenize(query))]

\* the module-level functions on the global search_index
\* an initialization that loads the store into the index as it stands
initialize_search_index_keeping(ix, st) == RebuildLoop(ix, st, list_papers(st))

initialize_search_index(ix, st) == rebuild(ix, st)
\* a refresh that leaves the index as it is
refresh_search_index_noop(ix, st) == [ix |-> ix, exc |-> FALSE]

refresh_search_index(ix, st) == rebuild(ix, st)
add_paper_to_index(ix, paper) == add_paper(ix, paper)
search_papers(ix, query, limit) == search(ix, query, limit)

(***************************************************************************)
(* The texts, papers and requests the model draws its inputs from.         *)
(***************************************************************************)
TitleA == <<"M", "L", " ", "o", "f", " ", "d", "l">>
TitleB == <<"D", "l", "-", "m", "l", " ", "x">>
TitleC == <<"n", "l", "p">>
TagA == <<"m", "l", "-", "a", "i">>
TagB == <<"n", "l", "p">>
AuthorA == <<"A", "l", " ", "M", "l">>
AbstractA == <<"t", "h", "e", " ", "d", "l">>
HlTextA == <<"a", "i", " ", "d", "l">>
HlCommentA == <<"m", "l">>
QStop == <<"t", "h", "e", " ", "a", "n", "d", " ", "i", "s">>
QShort == <<"a", " ", "!">>
QMl == <<"m", "l">>
QMlDl == <<"M", "L", " ", "d", "l">>
QMlMl == <<"m", "l", " ", "m", "l">>
QNlp == <<"n", "l", "p">>
QAbsent == <<"z", "z">>
TitleD == <<"m", "a", "r", "k", " ", "u", "p">>
TagD == <<"u", "p">>
QDl == <<"d", "l">>
QUp == <<"u", "p">>
QUpMark == <<"u", "p", " ", "m", "a", "r", "k">>
QUpNlp == <<"u", "p", " ", "n", "l", "p">>
\* n times the character c
Fill(c, n) == [i \in 1..n |-> c]

\* an abstract of 300 characters: 'ml' at 0, 'nlp' at 120, 'dl' at 250 and
\* again at 296
AbstractL ==
  <<"m", "l">> \o Fill("-", 118) \o <<"n", "l", "p">> \o Fill("-", 127)
  \o <<"d", "l">> \o Fill("-", 44) \o <<"d", "l">> \o Fill("-", 2)
\* an abstract of 120 characters that holds 'nlp' alone
AbstractL2 == <<"n", "l", "p">> \o Fill("-", 117)
\* a highlight text of 210 characters: 'ml' at 0, 'dl' at 199, across the
\* 200th character, and 'nlp' at 206
HlTextL ==
  <<"m", "l">> \o Fill("-", 197) \o <<"d", "l">> \o Fill("-", 5)
  \o <<"n", "l", "p">> \o Fill("-", 1)
TextExample == <<"T", "h", "e", " ", "Q", "u", "i", "c", "k", "-", "B", "r", "o", "w", "n", " ", "F", "o", "x", "'", "s", " ", "N", "a", "t", "u", "r", "e", "2", "0", "2", "4", "!">>
TextWords == <<"a", "_", "b", " ", "M", "L", " ", "m", "l", " ", "9", " ", "x", "2">>
IdP1 == <<"1", "0", "-", "1", "2", "3", "4", "-", "a">>
IdP2 == <<"1", "0", "-", "1", "2", "3", "4", "-", "b">>
DoiP1 == <<"1", "0", ".", "1", "2", "3", "4", "/", "A">>
DoiP2 == <<"1", "0", ".", "1", "2", "3", "4", "/", "b">>

InputJunk == <<"n", "o", "t", " ", "a", " ", "d", "o", "i">>

PaperIds == {IdP1, IdP2}
Dois == {DoiP1, DoiP2}

HlA == [id |-> 0, page |-> 3, color |-> "yellow", text |-> HlTextA,
        anchor |-> [start |-> 3, end |-> 3], comment |-> Some(HlCommentA),
        created_at |-> 0]

PaperA == [id |-> IdP1, doi |-> Some(DoiP1), title |-> TitleA,
           authors |-> <<[name |-> AuthorA]>>, abstract |-> Some(AbstractA),
           date_added |-> 0, date_modified |-> 0,
           tags |-> <<TagA>>, highlights |-> <<HlA>>]

PaperB == [id |-> IdP2, doi |-> Some(DoiP2), title |-> TitleB,
           authors |-> <<>>, abstract |-> None,
           date_added |-> 0, date_modified |-> 0,
           tags |-> <<TagB>>, highlights |-> <<>>]

\* another paper under the id of PaperB: one term in its title and in its
\* one tag, and a title that holds the word of the marker
PaperD == [id |-> IdP2, doi |-> Some(DoiP2), title |-> TitleD,
           authors |-> <<>>, abstract |-> None,
           date_added |-> 0, date_modified |-> 0,
           tags |-> <<TagD>>, highlights |-> <<>>]

\* PaperB added before PaperA
PaperBOld == [PaperB EXCEPT !.date_added = -1, !.date_modified = -1]

Ok(paper) == [valid |-> "ok", paper |-> paper]
BadHl(paper) == [valid |-> "badhl", paper |-> paper]
Corrupt(paper_id) ==
  [valid |-> "corrupt", paper |-> [PaperB EXCEPT !.id = paper_id]]

\* PaperA after an edit of its title and tags
PaperA2 == [PaperA EXCEPT !.title = TitleC, !.tags = <<>>]

HlL == [id |-> 0, page |-> 7, color |-> "yellow", text |-> HlTextL,
        anchor |-> [start |-> 7, end |-> 7], comment |-> None,
        created_at |-> 0]

\* the same highlight after its text and page were changed
HlL2 == [HlL EXCEPT !.page = 9, !.text = HlTextA]

\* a paper whose abstract and highlight are longer than the snippets cut
\* from them
PaperL == [id |-> IdP1, doi |-> Some(DoiP1), title |-> TitleA,
           authors |-> <<>>, abstract |-> Some(AbstractL),
           date_added |-> 0, date_modified |-> 0,
           tags |-> <<>>, highlights |-> <<HlL>>]

\* PaperL after an edit of its title, its abstract and its highlight
PaperL2 == [PaperL EXCEPT !.title = TitleC, !.abstract = Some(AbstractL2),
                          !.highlights = <<HlL2>>]

Library(fs, order, pdfIds) == [files |-> fs, dirOrder |-> order, pdfs |-> pdfIds]

\* The libraries the process may find on disk when it starts: none, one
\* paper, two papers of one date in both directory orders, an older paper
\* listed first, a file whose highlights do not validate, a file that is no
\* JSON object, and a PDF left without its metadata.
InitLibraries ==
  { Library(EmptyMap, <<>>, {}),
    Library((IdP1 :> Ok(PaperA)), <<IdP1>>, {}),
    Library((IdP1 :> Ok(PaperA)) @@ (IdP2 :> Ok(PaperB)), <<IdP1, IdP2>>, {}),
    Library((IdP1 :> Ok(PaperA)) @@ (IdP2 :> Ok(PaperB)), <<IdP2, IdP1>>, {}),
    Library((IdP1 :> Ok(PaperA)) @@ (IdP2 :> Ok(PaperBOld)), <<IdP2, IdP1>>, {}),
    Library((IdP1 :> Ok(PaperA)) @@ (IdP2 :> BadHl(PaperB)), <<IdP2, IdP1>>, {}),
    Library((IdP1 :> Corrupt(IdP1)) @@ (IdP2 :> Ok(PaperB)), <<IdP1, IdP2>>, {}),
    Library(EmptyMap, <<>>, {IdP1}) }

\* The stores the index is exercised over on its own: those, and one whose
\* paper was edited after it was last added.
IndexLibraries ==
  InitLibraries \cup {Library((IdP1 :> Ok(PaperA2)), <<IdP1>>, {})}

\* every order of the ids in S
Orders(S) ==
  {s \in [1..Cardinality(S) -> S] : \A i, j \in 1..Cardinality(S) : i # j => s[i] # s[j]}

Queries == {<<>>, QStop, QShort, QMl, QMlDl, QMlMl, QNlp, QAbsent}

\* Queries that hold no term: empty, stopwords only, one-character words
\* and punctuation only.
NoTermQueries == {<<>>, QStop, QShort}

(***************************************************************************)
(* backend/importers.py: extract_doi_from_input.                           *)
(***************************************************************************)
IsSpace(c) == c \in {" ", "\t", "\n", "\r"}
IsDigit(c) == c \in Digits
NotSpace(c) == ~IsSpace(c)
NotVNorSpace(c) == c # "v" /\ ~IsSpace(c)

\* str.strip()
strip(s) ==
  LET keep == {i \in 1..Len(s) : ~IsSpace(s[i])}
  IN  IF keep = {} THEN <<>>
      ELSE SubSeq(s, CHOOSE i \in keep : \A j \in keep : i <= j,
                     CHOOSE i \in keep : \A j \in keep : i >= j)

\* the character classes \d, [^\s] and [^v\s]
Kind(c, P) ==
  CASE P = "digit" -> IsDigit(c)
    [] P = "nonspace" -> NotSpace(c)
    [] P = "nonvspace" -> NotVNorSpace(c)

\* the last index of the longest run of characters of class P that starts
\* at i (i - 1 when there is none)
RECURSIVE RunEnd(_, _, _)
RunEnd(s, i, P) ==
  IF i <= Len(s) /\ Kind(s[i], P) THEN RunEnd(s, i + 1, P) ELSE i - 1

StartsAt(s, i, lit) ==
  i + Len(lit) - 1 <= Len(s) /\ SubSeq(s, i, i + Len(lit) - 1) = lit

\* 10\.\d{4,}/ at i: the index of the "/" or 0
DoiPrefixEnd(s, i) ==
  IF StartsAt(s, i, <<"1", "0", ".">>)
    THEN LET d == RunEnd(s, i + 3, "digit")
         IN  IF d - (i + 3) + 1 >= 4 /\ d + 1 <= Len(s) /\ s[d + 1] = "/"
               THEN d + 1 ELSE 0
    ELSE 0

\* re.search(r'10\.\d{4,}/[^\s]+', s): None or Some(match.group(0))
SearchDoi(s) ==
  LET ok(i) == DoiPrefixEnd(s, i) # 0
               /\ RunEnd(s, DoiPrefixEnd(s, i) + 1, "nonspace") > DoiPrefixEnd(s, i)
      at == {i \in 1..Len(s) : ok(i)}
  IN  IF at = {} THEN None
      ELSE LET i == CHOOSE k \in at : \A j \in at : k <= j
           IN  Some(SubSeq(s, i, RunEnd(s, DoiPrefixEnd(s, i) + 1, "nonspace")))

\* re.search(lit + r'(\d+\.\d+)', s): None or Some(group(1))
SearchArxiv(s) ==
  LET lit == <<"a","r","x","i","v",".","o","r","g","/","a","b","s","/">>
      g(i) == i + Len(lit)
      d1(i) == RunEnd(s, g(i), "digit")
      d2(i) == RunEnd(s, d1(i) + 2, "digit")
      ok(i) == /\ StartsAt(s, i, lit)
               /\ d1(i) >= g(i)
               /\ d1(i) + 1 <= Len(s) /\ s[d1(i) + 1] = "."
               /\ d2(i) >= d1(i) + 2
      at == {i \in 1..Len(s) : ok(i)}
  IN  IF at = {} THEN None
      ELSE LET i == CHOOSE k \in at : \A j \in at : k <= j
           IN  Some(SubSeq(s, g(i), d2(i)))

\* re.search(lit + r'([^v\s]+)', s): None or Some(group(1))
SearchBiorxiv(s) ==
  LET lit == <<"b","i","o","r","x","i","v",".","o","r","g","/",
               "c","o","n","t","e","n","t","/">>
      g(i) == i + Len(lit)
      ok(i) == StartsAt(s, i, lit) /\ RunEnd(s, g(i), "nonvspace") >= g(i)
      at == {i \in 1..Len(s) : ok(i)}
  IN  IF at = {} THEN None
      ELSE LET i == CHOOSE k \in at : \A j \in at : k <= j
           IN  Some(SubSeq(s, g(i), RunEnd(s, g(i), "nonvspace")))

extract_doi_from_input(input_str) ==
  LET s == strip(input_str)
  IN  IF DoiPrefixEnd(s, 1) # 0 THEN Some(s)
      ELSE IF contains(s, <<"d","o","i",".","o","r","g">>) /\ SearchDoi(s) # None
        THEN SearchDoi(s)
      ELSE IF SearchArxiv(s) # None
        THEN Some(<<"a","r","X","i","v",":">> \o SearchArxiv(s)[1])
      ELSE IF SearchBiorxiv(s) # None
        THEN Some(<<"b","i","o","R","x","i","v",":">> \o SearchBiorxiv(s)[1])
      ELSE SearchDoi(s)

(***************************************************************************)
(* State of the process, and the pieces of it the functions above take.    *)
(***************************************************************************)
Store == [files |-> files, dirOrder |-> dirOrder, pdfs |-> pdfs,
          texts |-> texts, now |-> now]
Index == [papers |-> papers, index |-> index, added |-> added]

SetStore(st) ==
  /\ files' = st.files
  /\ dirOrder' = st.dirOrder
  /\ pdfs' = st.pdfs
  /\ texts' = st.texts
  /\ now' = st.now

SetIndex(ix) ==
  /\ papers' = ix.papers
  /\ index' = ix.index
  /\ added' = ix.added

\* limit is the limit a search ran with, 0 in every other response; tokens
\* is what a call of tokenize returned, empty in every other response
Response(kind, status, paper_id, query, results) ==
  [kind |-> kind, status |-> status, paper_id |-> paper_id, query |-> query,
   results |-> results, total |-> Len(results), limit |-> 0, tokens |-> <<>>]

NoResponse == Response("none", "none", None, <<>>, <<>>)

\* raise HTTPException(status_code=404, detail=detail)
NotFound(detail) == Response("http_404", detail, None, <<>>, <<>>)

InitOver(libraries) ==
  /\ \E lib \in libraries :
       /\ files = lib.files
       /\ dirOrder = lib.dirOrder
       /\ pdfs = lib.pdfs
  /\ texts = {}
  /\ papers = EmptyMap
  /\ index = EmptyMap
  /\ added = <<>>
  /\ phase = "boot"
  /\ now = 1
  /\ inflight = [d \in Dois |-> 0]
  /\ resp = NoResponse
  /\ initCalls = 0

Init == InitOver(InitLibraries)

(***************************************************************************)
(* backend/main.py: the startup event and the request handlers.  A handler *)
(* runs to its end without yielding, except import_paper, which suspends   *)
(* at `await import_by_doi(doi)`.                                          *)
(***************************************************************************)
\* a startup event that does not initialize the index
startup_event_without_init ==
  /\ phase = "boot"
  /\ resp = NoResponse
  /\ phase' = "serving"
  /\ resp' = Response("startup", "success", None, <<>>, <<>>)
  /\ UNCHANGED <<files, dirOrder, pdfs, texts, papers, index, added, now, inflight,
                 initCalls>>

startup_event ==
  /\ phase = "boot"
  /\ resp = NoResponse
  /\ LET r == initialize_search_index(Index, Store)
     IN  /\ SetIndex(r.ix)
         /\ phase' = IF r.exc THEN "failed" ELSE "serving"
         /\ resp' = Response("startup", IF r.exc THEN "error" ELSE "success",
                             None, <<>>, <<>>)
  /\ initCalls' = initCalls + 1
  /\ UNCHANGED <<files, dirOrder, pdfs, texts, now, inflight>>

\* The event loop runs one handler at a time, and only once the application
\* has started and the response of the handler before has left.
Serving == phase = "serving" /\ resp = NoResponse
MayWrite == Serving /\ now <= MaxClock

RECURSIVE SumOver(_, _)
SumOver(f, S) ==
  IF S = {} THEN 0
  ELSE LET x == CHOOSE y \in S : TRUE IN f[x] + SumOver(f, S \ {x})

InflightTotal == SumOver(inflight, DOMAIN inflight)

\* import_paper up to its await: the DOI is parsed and looked up.
import_paper_begin(input) ==
  /\ Serving
  /\ LET doi == extract_doi_from_input(input)
     IN  IF doi = None
           THEN /\ resp' = Response("import", "invalid_doi", None, <<>>, <<>>)
                /\ UNCHANGED inflight
           ELSE LET existing_id == find_paper_by_doi(Store, doi[1])
                IN  IF existing_id # None
                      THEN /\ resp' = Response("import", "duplicate", existing_id,
                                               <<>>, <<>>)
                           /\ UNCHANGED inflight
                      ELSE /\ doi[1] \in Dois
                           /\ InflightTotal < MaxInflight
                           /\ inflight' = [inflight EXCEPT ![doi[1]] = @ + 1]
                           /\ UNCHANGED resp
  /\ UNCHANGED <<files, dirOrder, pdfs, texts, papers, index, added, phase, now,
                 initCalls>>

\* import_by_doi builds the paper from the fetched metadata.
import_by_doi(doi, metadata, t) ==
  [id |-> generate_paper_id(doi), doi |-> Some(doi), title |-> metadata.title,
   authors |-> metadata.authors, abstract |-> Some(metadata.abstract),
   date_added |-> t, date_modified |-> t, tags |-> <<>>, highlights |-> <<>>]

\* import_paper from its await on: the fetch has ended with no metadata, or
\* with metadata and a PDF or none.
import_paper_end(doi, metadata, has_pdf) ==
  /\ MayWrite
  /\ inflight[doi] > 0
  /\ inflight' = [inflight EXCEPT ![doi] = @ - 1]
  /\ IF metadata = None
       THEN /\ resp' = Response("import", "fetch_failed", None, <<>>, <<>>)
            /\ UNCHANGED <<files, dirOrder, pdfs, texts, papers, index, added, now>>
       ELSE LET paper == import_by_doi(doi, metadata[1], now)
                saved == save_paper(Store, paper)
                st2 == IF has_pdf THEN save_pdf(saved.st, paper.id) ELSE saved.st
            IN  /\ SetStore(st2)
                /\ SetIndex(add_paper_to_index(Index, saved.paper))
                /\ resp' = Response("import",
                                    IF has_pdf THEN "success" ELSE "partial",
                                    Some(paper.id), <<>>, <<>>)
  /\ UNCHANGED <<phase, initCalls>>

update_paper(paper_id, update) ==
  /\ MayWrite
  /\ LET r == load_paper(Store, paper_id)
     IN  IF r.val = None
           THEN /\ resp' = NotFound("Paper not found")
                /\ UNCHANGED <<files, dirOrder, pdfs, texts, papers, index, added, now>>
           ELSE LET paper == [r.val[1] EXCEPT
                     !.title = IF update.title # None THEN update.title[1] ELSE @,
                     !.authors = IF update.authors # None THEN update.authors[1] ELSE @,
                     !.abstract = IF update.abstract # None THEN update.abstract ELSE @]
                    saved == save_paper(Store, paper)
                IN  /\ SetStore(saved.st)
                    /\ SetIndex(add_paper_to_index(Index, saved.paper))
                    /\ resp' = Response("update_paper", "success", Some(paper_id),
                                        <<>>, <<>>)
  /\ UNCHANGED <<phase, inflight, initCalls>>

\* a handler that does not add the paper it has written
AddLoaded_skipped(ix, st, paper_id) == ix

\* if paper: add_paper_to_index(paper), after a load
AddLoaded(ix, st, paper_id) ==
  LET r == load_paper(st, paper_id)
  IN  IF r.val # None THEN add_paper_to_index(ix, r.val[1]) ELSE ix

update_paper_tags(paper_id, tags) ==
  /\ MayWrite
  /\ LET u == update_tags(Store, paper_id, tags)
     IN  IF ~u.ok
           THEN /\ resp' = NotFound("Paper not found")
                /\ UNCHANGED <<files, dirOrder, pdfs, texts, papers, index, added, now>>
           ELSE /\ SetStore(u.st)
                /\ SetIndex(AddLoaded(Index, u.st, paper_id))
                /\ resp' = Response("update_tags", "success", Some(paper_id), <<>>, <<>>)
  /\ UNCHANGED <<phase, inflight, initCalls>>

RECURSIVE AddLoadedAll(_, _, _)
AddLoadedAll(ix, st, paper_ids) ==
  IF paper_ids = <<>> THEN ix
  ELSE AddLoadedAll(AddLoaded(ix, st, Head(paper_ids)), st, Tail(paper_ids))

bulk_tag_papers(paper_ids, add_tags, remove_tags) ==
  /\ MayWrite
  /\ LET u == bulk_update_tags(Store, paper_ids, add_tags, remove_tags)
     IN  /\ SetStore(u.st)
         /\ SetIndex(AddLoadedAll(Index, u.st, paper_ids))
         /\ resp' = Response("bulk_tag", "success", None, <<>>, <<>>)
  /\ UNCHANGED <<phase, inflight, initCalls>>

delete_paper_endpoint(paper_id) ==
  /\ Serving
  /\ LET d == delete_paper(Store, paper_id)
     IN  IF ~d.deleted
           THEN /\ resp' = NotFound("Paper not found")
                /\ UNCHANGED <<files, dirOrder, pdfs, texts, papers, index, added, now>>
           ELSE LET r == refresh_search_index(Index, d.st)
                IN  /\ SetStore(d.st)
                    /\ SetIndex(r.ix)
                    /\ resp' = Response("delete_paper",
                                        IF r.exc THEN "error" ELSE "success",
                                        Some(paper_id), <<>>, <<>>)
  /\ UNCHANGED <<phase, inflight, initCalls>>

\* highlight_data: [page, color, text, anchor: [start, end], comment]
create_highlight(paper_id, highlight_data) ==
  /\ MayWrite
  /\ LET r == load_paper(Store, paper_id)
         highlight == [id |-> now, page |-> highlight_data.page,
                       color |-> highlight_data.color,
                       text |-> highlight_data.text,
                       anchor |-> highlight_data.anchor,
                       comment |-> highlight_data.comment,
                       created_at |-> now]
         a == add_highlight(Store, paper_id, highlight)
     IN  IF r.val = None
           THEN /\ resp' = NotFound("Paper not found")
                /\ UNCHANGED <<files, dirOrder, pdfs, texts, papers, index, added, now>>
         ELSE IF \/ highlight_data.anchor.start # highlight_data.anchor.end
                 \/ highlight_data.page # highlight_data.anchor.start
                 \/ strip(highlight_data.text) = <<>>
           THEN /\ resp' = Response("create_highlight", "validation_failed",
                                    Some(paper_id), <<>>, <<>>)
                /\ UNCHANGED <<files, dirOrder, pdfs, texts, papers, index, added, now>>
         ELSE IF a.ok
           THEN /\ SetStore(a.st)
                /\ SetIndex(AddLoaded(Index, a.st, paper_id))
                /\ resp' = Response("create_highlight", "success", Some(paper_id),
                                    <<>>, <<>>)
           ELSE /\ resp' = Response("create_highlight", "save_failed", Some(paper_id),
                                    <<>>, <<>>)
                /\ UNCHANGED <<files, dirOrder, pdfs, texts, papers, index, added, now>>
  /\ UNCHANGED <<phase, inflight, initCalls>>

update_highlight_endpoint(paper_id, highlight_id, update_data) ==
  /\ MayWrite
  /\ LET u == update_highlight(Store, paper_id, highlight_id,
                               update_data.comment, update_data.color, None)
     IN  IF ~u.ok
           THEN /\ resp' = NotFound("Highlight not found")
                /\ UNCHANGED <<files, dirOrder, pdfs, texts, papers, index, added, now>>
           ELSE /\ SetStore(u.st)
                /\ SetIndex(AddLoaded(Index, u.st, paper_id))
                /\ resp' = Response("update_highlight", "success", Some(paper_id),
                                    <<>>, <<>>)
  /\ UNCHANGED <<phase, inflight, initCalls>>

delete_highlight_endpoint(paper_id, highlight_id) ==
  /\ MayWrite
  /\ LET u == delete_highlight(Store, paper_id, highlight_id)
     IN  IF ~u.ok
           THEN /\ resp' = NotFound("Highlight not found")
                /\ UNCHANGED <<files, dirOrder, pdfs, texts, papers, index, added, now>>
           ELSE /\ SetStore(u.st)
                /\ SetIndex(AddLoaded(Index, u.st, paper_id))
                /\ resp' = Response("delete_highlight", "success", Some(paper_id),
                                    <<>>, <<>>)
  /\ UNCHANGED <<phase, inflight, initCalls>>

\* GET /api/search
api_search(q) ==
  /\ Serving
  /\ resp' = [Response("search", "success", None, q,
                       search_papers(Index, q, DefaultLimit))
                EXCEPT !.limit = DefaultLimit]
  /\ SetIndex(after_search(Index, q, DefaultLimit))
  /\ UNCHANGED <<files, dirOrder, pdfs, texts, phase, now, inflight, initCalls>>

(***************************************************************************)
(* The requests the clients send, and what the fetches of an import give.  *)
(***************************************************************************)
ImportInputs == {DoiP1, DoiP2, InputJunk}
MetaC == [title |-> TitleC, authors |-> <<>>, abstract |-> <<>>]
Fetched == {None, Some(MetaC)}
Updates == {[title |-> Some(TitleC), authors |-> None, abstract |-> None]}
TagLists == {<<TagB>>}
BulkRequests ==
  { [paper_ids |-> <<IdP2, IdP1>>, add_tags |-> <<TagB>>, remove_tags |-> <<>>],
    [paper_ids |-> <<IdP1>>, add_tags |-> <<>>, remove_tags |-> <<TagA>>] }
HighlightInputs ==
  { [page |-> 1, color |-> "green", text |-> HlTextA,
     anchor |-> [start |-> 1, end |-> 1], comment |-> None],
    [page |-> 1, color |-> "green", text |-> <<" ">>,
     anchor |-> [start |-> 1, end |-> 1], comment |-> None] }
HighlightIds == 0..MaxClock
HighlightUpdates == {[comment |-> Some(TagB), color |-> None]}
AppQueries == NoTermQueries \cup {QMl, QNlp}

\* The response leaves the process.
send_response ==
  /\ resp # NoResponse
  /\ resp' = NoResponse
  /\ UNCHANGED <<files, dirOrder, pdfs, texts, papers, index, added, phase, now,
                 inflight, initCalls>>

Next ==
  \/ startup_event
  \/ send_response
  \/ \E input \in ImportInputs : import_paper_begin(input)
  \/ \E doi \in Dois, metadata \in Fetched, has_pdf \in BOOLEAN :
       import_paper_end(doi, metadata, has_pdf)
  \/ \E paper_id \in PaperIds, update \in Updates : update_paper(paper_id, update)
  \/ \E paper_id \in PaperIds, tags \in TagLists : update_paper_tags(paper_id, tags)
  \/ \E b \in BulkRequests :
       bulk_tag_papers(b.paper_ids, b.add_tags, b.remove_tags)
  \/ \E paper_id \in PaperIds : delete_paper_endpoint(paper_id)
  \/ \E paper_id \in PaperIds, h \in HighlightInputs : create_highlight(paper_id, h)
  \/ \E paper_id \in PaperIds, hid \in HighlightIds, u \in HighlightUpdates :
       update_highlight_endpoint(paper_id, hid, u)
  \/ \E paper_id \in PaperIds, hid \in HighlightIds :
       delete_highlight_endpoint(paper_id, hid)
  \/ \E q \in AppQueries : api_search(q)

Spec == Init /\ [][Next]_vars

(***************************************************************************)
(* The index on its own: the methods of SearchIndex called directly, over  *)
(* a store that other code saves to and deletes from.                      *)
(***************************************************************************)
MaxAdded == 3

AddPool == {PaperA, PaperA2, PaperB}
Limits == {DefaultLimit, 1}

call_add_paper(paper) ==
  /\ resp = NoResponse
  /\ Len(added) < MaxAdded
  /\ SetIndex(add_paper(Index, paper))
  /\ UNCHANGED <<files, dirOrder, pdfs, texts, phase, now, inflight, resp, initCalls>>

call_rebuild ==
  /\ resp = NoResponse
  /\ LET r == rebuild(Index, Store)
     IN  /\ SetIndex(r.ix)
         /\ resp' = Response("rebuild", IF r.exc THEN "error" ELSE "success",
                             None, <<>>, <<>>)
  /\ UNCHANGED <<files, dirOrder, pdfs, texts, phase, now, inflight, initCalls>>

call_search(query, limit) ==
  /\ resp = NoResponse
  /\ resp' = [Response("search", "success", None, query,
                       search(Index, query, limit))
                EXCEPT !.limit = limit]
  /\ SetIndex(after_search(Index, query, limit))
  /\ UNCHANGED <<files, dirOrder, pdfs, texts, phase, now, inflight, initCalls>>

\* storage.delete_paper called by other code
store_delete(paper_id) ==
  /\ resp = NoResponse
  /\ paper_exists(Store, paper_id)
  /\ SetStore(delete_paper(Store, paper_id).st)
  /\ UNCHANGED <<papers, index, added, phase, inflight, resp, initCalls>>

NextIndex ==
  \/ \E paper \in AddPool : call_add_paper(paper)
  \/ call_rebuild
  \/ \E query \in Queries, limit \in Limits : call_search(query, limit)
  \/ \E paper_id \in PaperIds : store_delete(paper_id)
  \/ send_response

InitIndex == InitOver(IndexLibraries)

SpecIndex == InitIndex /\ [][NextIndex]_vars

(***************************************************************************)
(* The store on its own: the functions of storage.py called directly, as   *)
(* its tests call them.                                                    *)
(***************************************************************************)
SavePool == {PaperA, PaperB}

call_save_paper(paper) ==
  /\ resp = NoResponse
  /\ now <= MaxClock
  /\ SetStore(save_paper(Store, paper).st)
  /\ UNCHANGED <<papers, index, added, phase, inflight, resp, initCalls>>

call_save_pdf(paper_id) ==
  /\ resp = NoResponse
  /\ SetStore(save_pdf(Store, paper_id))
  /\ UNCHANGED <<papers, index, added, phase, inflight, resp, initCalls>>

call_save_extracted_text(paper_id) ==
  /\ resp = NoResponse
  /\ SetStore(save_extracted_text(Store, paper_id))
  /\ UNCHANGED <<papers, index, added, phase, inflight, resp, initCalls>>

call_delete_paper(paper_id) ==
  /\ resp = NoResponse
  /\ LET d == delete_paper(Store, paper_id)
     IN  /\ SetStore(d.st)
         /\ resp' = Response("storage.delete_paper",
                             IF d.deleted THEN "True" ELSE "False",
                             Some(paper_id), <<>>, <<>>)
  /\ UNCHANGED <<papers, index, added, phase, inflight, initCalls>>

NextStore ==
  \/ \E paper \in SavePool : call_save_paper(paper)
  \/ \E paper_id \in PaperIds : call_save_pdf(paper_id)
  \/ \E paper_id \in PaperIds : call_save_extracted_text(paper_id)
  \/ \E paper_id \in PaperIds : call_delete_paper(paper_id)
  \/ send_response

InitStore == InitOver(InitLibraries)

SpecStore == InitStore /\ [][NextStore]_vars

(***************************************************************************)
(* Searches over an index that add_paper alone has filled: the store is    *)
(* empty, so that a rebuild leaves the index empty.                        *)
(***************************************************************************)
SearchPool == {PaperA, PaperA2, PaperB, PaperD}
SearchQueries == {QStop, QMl, QMlDl, QMlMl, QNlp, QDl, QUp, QUpMark, QUpNlp}
SearchLimits == {DefaultLimit, 1, 0}

NextSearch ==
  \/ \E paper \in SearchPool : call_add_paper(paper)
  \/ call_rebuild
  \/ \E query \in SearchQueries, limit \in SearchLimits : call_search(query, limit)
  \/ send_response

InitSearch == InitOver({Library(EmptyMap, <<>>, {})})

SpecSearch == InitSearch /\ [][NextSearch]_vars

(***************************************************************************)
(* The snippets cut from long texts, and the tokenizer called on its own.  *)
(***************************************************************************)
SnippetPool == {PaperL, PaperL2, PaperA, PaperB}
SnippetQueries == {QMl, QDl, QNlp, QMlDl}
TokenizeInputs == {<<>>, TextExample, TextWords, QStop, QShort, QMlMl}

\* search_index.tokenize(text), which raises nothing
call_tokenize(text) ==
  /\ resp = NoResponse
  /\ resp' = [Response("tokenize", "success", None, text, <<>>)
                EXCEPT !.tokens = tokenize(text)]
  /\ UNCHANGED <<files, dirOrder, pdfs, texts, papers, index, added, phase, now,
                 inflight, initCalls>>

NextSnippet ==
  \/ \E paper \in SnippetPool : call_add_paper(paper)
  \/ \E query \in SnippetQueries : call_search(query, DefaultLimit)
  \/ \E text \in TokenizeInputs : call_tokenize(text)
  \/ send_response

InitSnippet == InitOver({Library(EmptyMap, <<>>, {})})

SpecSnippet == InitSnippet /\ [][NextSnippet]_vars

(***************************************************************************)
(* Properties.                                                             *)
(***************************************************************************)
Count(s, x) == Cardinality({i \in 1..Len(s) : s[i] = x})
SameBag(s, t) == Len(s) = Len(t) /\ \A i \in 1..Len(s) : Count(s, s[i]) = Count(t, s[i])
PostingsUnder(idx, term) == IF term \in DOMAIN idx THEN idx[term] ELSE <<>>
PostingsOf(idx, term, paper_id) ==
  SelectSeq(PostingsUnder(idx, term), LAMBDA e : e[1] = paper_id)
ResultIds(results) == {results[i].paper_id : i \in 1..Len(results)}
ScoreOf(results, paper_id) ==
  LET at == {i \in 1..Len(results) : results[i].paper_id = paper_id}
  IN  IF at = {} THEN 0 ELSE results[CHOOSE i \in at : TRUE].score

\* the ids whose file load_paper can read, and the documents read
StoredIds == {paper_id \in DOMAIN files : files[paper_id].valid = "ok"}
StoredPaper(paper_id) == files[paper_id].paper

RECURSIVE AddAll(_, _)
AddAll(ix, ps) ==
  IF ps = <<>> THEN ix ELSE AddAll(add_paper(ix, Head(ps)), Tail(ps))

\* C1: once the index is initialized, the posting lists equal, up to the
\* order of the postings, those of an empty index to which every document
\* of the store has been added exactly once.
C1_IndexIsReplayOfStore ==
  phase = "serving" =>
    \A s \in Orders(StoredIds) :
      LET replay == AddAll(EmptyIndex, [i \in 1..Len(s) |-> StoredPaper(s[i])]).index
      IN  /\ DOMAIN index = DOMAIN replay
          /\ \A term \in DOMAIN index : SameBag(index[term], replay[term])

\* C2: every posting stored under any term has a document id that is a key
\* of the document cache.
C2_PostingsHaveCachedPaper ==
  \A term \in DOMAIN index :
    \A i \in 1..Len(index[term]) : index[term][i][1] \in DOMAIN papers

C2_Witness ==
  /\ resp.kind = "rebuild"
  /\ DOMAIN papers = {IdP1}
  /\ IdP2 \notin DOMAIN files
  /\ index # EmptyMap

\* the calls of add_paper for this id since the last clear
AddedFor(paper_id) == SelectSeq(added, LAMBDA p : p.id = paper_id)

\* C3: when add_paper has been called n times with the same document and no
\* rebuild in between, the index holds n times the postings of one call for
\* that document, and every search gives it n times the score it has after
\* one call.
C3_AddIsAdditive ==
  \A paper_id \in PaperIds :
    LET calls == AddedFor(paper_id)
        n == Len(calls)
    IN  (n >= 1 /\ \A i \in 1..n : calls[i] = calls[1]) =>
          LET one == add_paper(EmptyIndex, calls[1])
          IN  /\ \A term \in (DOMAIN index) \cup (DOMAIN one.index) :
                   LET here == PostingsOf(index, term, paper_id)
                       once == PostingsOf(one.index, term, paper_id)
                   IN  /\ Len(here) = n * Len(once)
                       /\ \A i \in 1..Len(once) :
                            Count(here, once[i]) = n * Count(once, once[i])
              /\ resp.kind = "search" =>
                   \A i \in 1..Len(resp.results) :
                     resp.results[i].paper_id = paper_id =>
                       resp.results[i].score
                         = n * ScoreOf(search(one, resp.query, DefaultLimit), paper_id)

C3_Witness ==
  /\ added = <<PaperA, PaperA, PaperA>>
  /\ resp.kind = "search"
  /\ resp.query = QMl
  /\ ScoreOf(resp.results, IdP1) = 3 * ScoreOf(search(add_paper(EmptyIndex, PaperA), QMl, DefaultLimit), IdP1)
  /\ ScoreOf(resp.results, IdP1) > 0

\* C4: a paper that has no file in the store (its deletion has refreshed the
\* index) is not in the cache, has no posting, and is in the results of no
\* search.
C4_DeletedPaperNotFound ==
  \A paper_id \in PaperIds :
    (phase = "serving" /\ ~paper_exists(Store, paper_id)) =>
      /\ paper_id \notin DOMAIN papers
      /\ \A term \in DOMAIN index : PostingsOf(index, term, paper_id) = <<>>
      /\ resp.kind = "search" => paper_id \notin ResultIds(resp.results)

\* a search that finds the other paper, after the paper was written to
\* twice and then deleted
C4_Witness ==
  /\ resp.kind = "search"
  /\ resp.query = QMl
  /\ ResultIds(resp.results) = {IdP2}
  /\ ~paper_exists(Store, IdP1)
  /\ now > 2

\* the position of x in the sequence s
PosIn(s, x) == CHOOSE i \in 1..Len(s) : s[i] = x

\* the stored documents, newest date_added first, equal dates in the order
\* of the directory
ListedNewestFirst ==
  CHOOSE s \in Orders(StoredIds) :
    \A i, j \in 1..Len(s) :
      i < j =>
        \/ StoredPaper(s[i]).date_added > StoredPaper(s[j]).date_added
        \/ /\ StoredPaper(s[i]).date_added = StoredPaper(s[j]).date_added
           /\ PosIn(dirOrder, s[i]) < PosIn(dirOrder, s[j])

\* C5: after rebuild, postings and cache are those of empty structures to
\* which each document the store lists and loads has been added once, newest
\* date_added first; a second rebuild over the same store changes nothing.
C5_RebuildIsReplay ==
  resp.kind = "rebuild" =>
    LET s == ListedNewestFirst
        replay == AddAll(EmptyIndex, [i \in 1..Len(s) |-> StoredPaper(s[i])])
        again == rebuild(Index, Store).ix
    IN  /\ index = replay.index
        /\ papers = replay.papers
        /\ again.index = index
        /\ again.papers = papers

C5_Witness ==
  /\ resp.kind = "rebuild"
  /\ dirOrder = <<IdP2, IdP1>>
  /\ files[IdP2] = Ok(PaperBOld)
  /\ added = <<PaperA, PaperBOld>>

\* C6: after rebuild, a document whose load fails is in neither the postings
\* nor the cache, every document that loads is in the cache with the
\* postings of one add_paper, and rebuild has returned without an error.
C6_RebuildSkipsFailedLoads ==
  resp.kind = "rebuild" =>
    /\ resp.status = "success"
    /\ DOMAIN papers = StoredIds
    /\ \A paper_id \in StoredIds :
         /\ papers[paper_id] = StoredPaper(paper_id)
         /\ LET one == add_paper(EmptyIndex, StoredPaper(paper_id)).index
            IN  \A term \in DOMAIN one :
                  PostingsOf(index, term, paper_id) = one[term]
    /\ \A paper_id \in DOMAIN files \ StoredIds :
         \A term \in DOMAIN index : PostingsOf(index, term, paper_id) = <<>>

C6_Witness ==
  /\ resp.kind = "rebuild"
  /\ resp.status = "success"
  /\ dirOrder = <<IdP2, IdP1>>
  /\ files[IdP2].valid = "badhl"
  /\ DOMAIN papers = {IdP1}

\* C7: once the application serves, the cache of the index holds exactly
\* the papers load_paper reads from the store, each equal to the stored one.
C7_CacheMatchesStore ==
  phase = "serving" =>
    /\ DOMAIN papers = StoredIds
    /\ \A paper_id \in StoredIds : papers[paper_id] = StoredPaper(paper_id)

C7_Witness ==
  /\ phase = "serving"
  /\ resp.kind = "import"
  /\ resp.status = "success"
  /\ now > 2
  /\ DOMAIN papers = {IdP1, IdP2}
  /\ papers[IdP1].tags # PaperA.tags

\* C8: the index is initialized once, by the startup event, and no search is
\* served before that.
C8_InitializedOnceBeforeSearch ==
  /\ initCalls <= 1
  /\ phase = "serving" => initCalls = 1
  /\ resp.kind = "search" => initCalls = 1
  /\ phase = "boot" => (initCalls = 0 /\ index = EmptyMap /\ papers = EmptyMap)

C8_Witness ==
  /\ resp.kind = "search"
  /\ resp.total > 0
  /\ initCalls = 1

\* C9: a search with a query that holds no term answers with no result and
\* a total of 0.
C9_NoTermQueryFindsNothing ==
  (resp.kind = "search" /\ resp.query \in NoTermQueries) =>
    (resp.status = "success" /\ resp.results = <<>> /\ resp.total = 0)

C9_Witness ==
  /\ resp.kind = "search"
  /\ resp.query = QStop
  /\ resp.total = 0
  /\ IdP1 \in DOMAIN papers
  /\ papers[IdP1].abstract = Some(AbstractA)

\* the sum of the weights of the postings of paper_id under the term
RECURSIVE WeightSum(_, _)
WeightSum(entries, paper_id) ==
  IF entries = <<>> THEN 0
  ELSE (IF Head(entries)[1] = paper_id THEN Head(entries)[3] ELSE 0)
       + WeightSum(Tail(entries), paper_id)

\* the sum over the occurrences of terms in the query
RECURSIVE ExpectedScore(_, _, _)
ExpectedScore(idx, tokens, paper_id) ==
  IF tokens = <<>> THEN 0
  ELSE WeightSum(PostingsUnder(idx, Head(tokens)), paper_id)
       + ExpectedScore(idx, Tail(tokens), paper_id)

\* C10: the score of every returned document is the sum, over the term
\* occurrences of the query and the postings of the document under each, of
\* the weights of the postings.
C10_ScoreIsSumOfWeights ==
  resp.kind = "search" =>
    \A i \in 1..Len(resp.results) :
      resp.results[i].score
        = ExpectedScore(index, tokenize(resp.query), resp.results[i].paper_id)

C10_Witness ==
  /\ resp.kind = "search"
  /\ resp.query = QMlMl
  /\ Len(added) = 3
  /\ \E i \in 1..Len(resp.results) : resp.results[i].score > 60

\* the place, among the postings met while the terms of the query are
\* scanned in order, of the first posting of the document
FirstHit(hits, paper_id) ==
  CHOOSE i \in 1..Len(hits) :
    /\ hits[i].entry[1] = paper_id
    /\ \A j \in 1..(i - 1) : hits[j].entry[1] # paper_id

\* C11: the results of a search are in non-increasing order of score, and
\* documents of equal score are in the order in which their first
\* contributing posting was met.
C11_RankedByScoreThenDiscovery ==
  resp.kind = "search" =>
    LET hits == Hits(index, tokenize(resp.query))
        r == resp.results
    IN  \A i, j \in 1..Len(r) :
          i < j =>
            \/ r[i].score > r[j].score
            \/ /\ r[i].score = r[j].score
               /\ FirstHit(hits, r[i].paper_id) < FirstHit(hits, r[j].paper_id)

\* two documents of equal score, the one added last under the other id
\* ranked last
C11_Witness ==
  /\ resp.kind = "search"
  /\ resp.query = QDl
  /\ added = <<PaperB, PaperA2>>
  /\ Len(resp.results) = 2
  /\ resp.results[1].paper_id = IdP2
  /\ resp.results[2].paper_id = IdP1
  /\ resp.results[1].score = resp.results[2].score

\* the documents that have a posting under a term of the query
Matching(hits) == {hits[i].entry[1] : i \in 1..Len(hits)}

\* C12: a search with a limit >= 0 returns the first `limit` documents of
\* the ranking, all of them when there are fewer: each returned document
\* ranks before every document left out.
C12_LimitKeepsTopOfRanking ==
  (resp.kind = "search" /\ resp.limit >= 0) =>
    LET tokens == tokenize(resp.query)
        hits == Hits(index, tokens)
        r == resp.results
    IN  /\ Len(r) = Min(resp.limit, Cardinality(Matching(hits)))
        /\ \A i, j \in 1..Len(r) : i # j => r[i].paper_id # r[j].paper_id
        /\ \A i \in 1..Len(r) : r[i].paper_id \in Matching(hits)
        /\ \A paper_id \in Matching(hits) \ ResultIds(r) :
             \A i \in 1..Len(r) :
               \/ r[i].score > ExpectedScore(index, tokens, paper_id)
               \/ /\ r[i].score = ExpectedScore(index, tokens, paper_id)
                  /\ FirstHit(hits, r[i].paper_id) < FirstHit(hits, paper_id)

\* limit 1 keeps the document of the higher score, which was met second
C12_Witness ==
  /\ resp.kind = "search"
  /\ resp.limit = 1
  /\ resp.query = QMl
  /\ added = <<PaperB, PaperA>>
  /\ ResultIds(resp.results) = {IdP1}

\* the text with every occurrence of a token wrapped in the markers, in one
\* pass over the text as it was: at each place the first token of the query
\* that matches there, without regard to case, is wrapped and passed over.
TokensAt(text, tokens, p) ==
  {k \in 1..Len(tokens) :
     /\ p + Len(tokens[k]) - 1 <= Len(text)
     /\ lower(SubSeq(text, p, p + Len(tokens[k]) - 1)) = tokens[k]}

RECURSIVE WrapOnce(_, _, _)
WrapOnce(text, tokens, i) ==
  LET places == {p \in i..Len(text) : TokensAt(text, tokens, p) # {}}
  IN  IF places = {} THEN SubSeq(text, i, Len(text))
      ELSE LET p == Least(places)
               n == Len(tokens[Least(TokensAt(text, tokens, p))])
           IN  SubSeq(text, i, p - 1)
               \o MarkOpen \o SubSeq(text, p, p + n - 1) \o MarkClose
               \o WrapOnce(text, tokens, p + n)

TokenSet(text) == {tokenize(text)[i] : i \in 1..Len(tokenize(text))}

\* C13: after one add_paper of a document whose title holds two distinct
\* terms, a search with those two terms returns the document with a score
\* of at least 20 and a title match whose snippet is the title with both
\* terms wrapped in the markers.
C13_TwoTitleTermsFound ==
  (/\ resp.kind = "search"
   /\ resp.limit >= 1
   /\ Len(added) = 1
   /\ Len(tokenize(resp.query)) = 2
   /\ tokenize(resp.query)[1] # tokenize(resp.query)[2]
   /\ TokenSet(resp.query) \subseteq TokenSet(added[1].title)) =>
    \E i \in 1..Len(resp.results) :
      LET r == resp.results[i]
      IN  /\ r.paper_id = added[1].id
          /\ r.score >= 2 * WeightTitle
          /\ \E k \in 1..Len(r.matches) :
               /\ r.matches[k].field = "title"
               /\ r.matches[k].snippet
                    = WrapOnce(added[1].title, tokenize(resp.query), 1)

\* the number of postings of the field that the query meets for the document
FieldHits(hits, paper_id, field) ==
  Cardinality({i \in 1..Len(hits) :
                 hits[i].entry[1] = paper_id /\ hits[i].entry[2] = field})

HasMatch(result, field) ==
  \E k \in 1..Len(result.matches) : result.matches[k].field = field

\* C14: for a document added once, each posting met contributes the weight
\* of its field (title 10, tag 8, author 7, highlight 6, abstract 4) and the
\* contributions add up; a term met once in the title and once in a tag
\* gives 18, with a title match and a tag match.
C14_FieldWeightsAddUp ==
  resp.kind = "search" =>
    LET hits == Hits(index, tokenize(resp.query))
    IN  \A i \in 1..Len(resp.results) :
          LET r == resp.results[i]
              n(field) == FieldHits(hits, r.paper_id, field)
          IN  Len(AddedFor(r.paper_id)) = 1 =>
                /\ r.score = 10 * n("title") + 8 * n("tag") + 7 * n("author")
                               + 6 * n("highlight") + 4 * n("abstract")
                /\ n("tag") > 0 => HasMatch(r, "tag")
                /\ n("title") > 0 => HasMatch(r, "title")
                /\ (/\ n("title") = 1 /\ n("tag") = 1 /\ n("author") = 0
                    /\ n("highlight") = 0 /\ n("abstract") = 0) => r.score = 18

C14_Witness ==
  /\ resp.kind = "search"
  /\ resp.query = QUp
  /\ added = <<PaperD>>
  /\ Len(resp.results) = 1
  /\ resp.results[1].score = 18
  /\ HasMatch(resp.results[1], "tag")
  /\ HasMatch(resp.results[1], "title")

IsPrefix(s, t) == Len(s) <= Len(t) /\ SubSeq(t, 1, Len(s)) = s

\* every posting list is still there, with at most new postings after it
KeepsPostings ==
  \A term \in DOMAIN index :
    term \in DOMAIN index' /\ IsPrefix(index[term], index'[term])

\* the terms add_paper files the document under
TermsOf(paper) == DOMAIN add_paper(EmptyIndex, paper).index

\* a search that is not cut short finds every document under every term
\* of every content it was added with since the last rebuild
StaleContentFound ==
  (resp.kind = "search" /\ resp.limit >= Cardinality(PaperIds)) =>
    \A k \in 1..Len(added) :
      TokenSet(resp.query) \cap TermsOf(added[k]) # {} =>
        added[k].id \in ResultIds(resp.results)

\* C15: only a rebuild removes postings, an add_paper never does; a
\* document added again with other content is still found under the terms
\* of its old content, until the next rebuild.
C15_PostingsStayUntilRebuild ==
  /\ [][KeepsPostings \/ resp'.kind = "rebuild"]_vars
  /\ []StaleContentFound

\* the title 'nlp' was replaced by 'ML of dl', and 'nlp' still finds the paper
C15_Witness ==
  /\ resp.kind = "search"
  /\ resp.query = QNlp
  /\ added = <<PaperA2, PaperA>>
  /\ papers[IdP1] = PaperA
  /\ IdP1 \in ResultIds(resp.results)

\* C16: from any index state and store, refresh_search_index and
\* initialize_search_index give what SearchIndex.rebuild gives, and the
\* state the startup event and a deletion leave is the rebuilt one.
C16_RefreshAndInitializeAreRebuild ==
  /\ refresh_search_index(Index, Store) = rebuild(Index, Store)
  /\ initialize_search_index(Index, Store) = rebuild(Index, Store)
  /\ (resp.kind \in {"startup", "delete_paper"} /\ resp.status = "success") =>
       Index = rebuild(Index, Store).ix

\* a deletion after a write has refreshed an index that held two papers
C16_Witness ==
  /\ resp.kind = "delete_paper"
  /\ resp.status = "success"
  /\ DOMAIN papers = {IdP2}
  /\ IdP1 \notin DOMAIN files
  /\ now > 1

\* no add_paper and no rebuild is under way: every document the store
\* holds is in the cache, and every cached document has all the postings
\* one add_paper gives it
IndexSettled ==
  /\ DOMAIN papers = StoredIds
  /\ \A paper_id \in DOMAIN papers :
       LET one == add_paper(EmptyIndex, papers[paper_id]).index
       IN  \A term \in DOMAIN one :
             /\ term \in DOMAIN index
             /\ \A i \in 1..Len(one[term]) :
                  Count(index[term], one[term][i]) >= Count(one[term], one[term][i])

\* C17: whatever requests are in flight, the index a search has read is
\* never one that an add_paper or a rebuild has left half done.
C17_SearchSeesSettledIndex ==
  resp.kind = "search" => IndexSettled

\* a search served while an import is suspended at its fetch, after a write
C17_Witness ==
  /\ resp.kind = "search"
  /\ resp.total > 0
  /\ InflightTotal > 0
  /\ now > 1

\* C18: delete_paper returns True exactly when the metadata, the PDF or the
\* text of the paper was there; afterwards none of the three is, paper_exists
\* is false and load_paper gives None; when none was there the store is left
\* as it was.
C18_DeletePaperResult ==
  [][resp'.kind = "storage.delete_paper" =>
       LET paper_id == resp'.paper_id[1]
           had == \/ paper_id \in DOMAIN files
                  \/ paper_id \in pdfs
                  \/ paper_id \in texts
       IN  /\ (resp'.status = "True") <=> had
           /\ resp'.status \in {"True", "False"}
           /\ paper_id \notin DOMAIN files'
           /\ paper_id \notin pdfs'
           /\ paper_id \notin texts'
           /\ ~paper_exists(Store', paper_id)
           /\ load_paper(Store', paper_id).val = None
           /\ ~had => UNCHANGED <<files, dirOrder, pdfs, texts>>]_vars

\* a deletion that found something, in a store where the other paper has
\* its three files
C18_Witness ==
  /\ resp.kind = "storage.delete_paper"
  /\ resp.status = "True"
  /\ resp.paper_id = Some(IdP1)
  /\ IdP1 \notin DOMAIN files /\ IdP1 \notin pdfs /\ IdP1 \notin texts
  /\ IdP2 \in DOMAIN files /\ IdP2 \in pdfs /\ IdP2 \in texts

ScalarFields == {"title", "tag", "author", "abstract"}

\* the match records of the document, in the order the search meets them
RecordsOf(hits, paper_id) ==
  LET met == SelectSeq(hits, LAMBDA h : h.entry[1] = paper_id)
  IN  [i \in 1..Len(met) |-> MatchInfo(met[i])]

FieldRecords(records, field) == SelectSeq(records, LAMBDA m : m.field = field)
MatchesOf(result, field) == SelectSeq(result.matches, LAMBDA m : m.field = field)

RECURSIVE StripMarkers(_, _)
StripMarkers(snippet, i) ==
  LET places == {p \in i..Len(snippet) :
                   StartsAt(snippet, p, MarkOpen) \/ StartsAt(snippet, p, MarkClose)}
  IN  IF places = {} THEN SubSeq(snippet, i, Len(snippet))
      ELSE LET p == Least(places)
               n == IF StartsAt(snippet, p, MarkOpen) THEN Len(MarkOpen)
                                                      ELSE Len(MarkClose)
           IN  SubSeq(snippet, i, p - 1) \o StripMarkers(snippet, p + n)

\* the texts a match of the field may have been cut from
SnippetSources(paper, records, field, tokens) ==
  CASE field = "title" -> {paper.title}
    [] field = "tag" -> {paper.tags[i] : i \in 1..Len(paper.tags)}
    [] field = "author" -> {paper.authors[i].name : i \in 1..Len(paper.authors)}
    [] field = "abstract" ->
         IF paper.abstract = None THEN {}
         ELSE {extract_context(paper.abstract[1], tokens[i], ContextChars) :
                 i \in 1..Len(tokens)}
    [] field = "highlight" ->
         {Prefix(FieldRecords(records, "highlight")[i].text[1], HighlightSnippetChars) :
            i \in 1..Len(FieldRecords(records, "highlight"))}

\* C20: every snippet is its source text with each occurrence of a query
\* term wrapped once, in one pass over the source; without the markers the
\* snippet is the source again.
C20_WrappedOnceOverOriginal ==
  resp.kind = "search" =>
    LET tokens == tokenize(resp.query)
        hits == Hits(index, tokens)
    IN  \A i \in 1..Len(resp.results) :
          LET r == resp.results[i]
              sources(field) ==
                SnippetSources(papers[r.paper_id], RecordsOf(hits, r.paper_id),
                               field, tokens)
          IN  \A k \in 1..Len(r.matches) :
                \E source \in sources(r.matches[k].field) :
                  /\ r.matches[k].snippet = WrapOnce(source, tokens, 1)
                  /\ StripMarkers(r.matches[k].snippet, 1) = source

\* the places of the text where the token stands, case set aside
Occurrences(text, token) ==
  {p \in 1..(Len(text) - Len(token) + 1) :
     lower(SubSeq(text, p, p + Len(token) - 1)) = token}

\* the n characters of the source from place p on stand in the snippet
\* between an opening and a closing marker, after the source up to p
WrappedAt(snippet, source, p, n) ==
  \E q \in 1..Len(snippet) :
    /\ StartsAt(snippet, q, MarkOpen \o SubSeq(source, p, p + n - 1) \o MarkClose)
    /\ StripMarkers(SubSeq(snippet, 1, q - 1), 1) = SubSeq(source, 1, p - 1)

\* C21: in every snippet, every occurrence, whatever its case, of every
\* token of the tokenized query is wrapped in a marker.
C21_EveryOccurrenceWrapped ==
  resp.kind = "search" =>
    LET tokens == tokenize(resp.query)
        hits == Hits(index, tokens)
    IN  \A i \in 1..Len(resp.results) :
          LET r == resp.results[i]
              sources(field) ==
                SnippetSources(papers[r.paper_id], RecordsOf(hits, r.paper_id),
                               field, tokens)
          IN  \A k \in 1..Len(r.matches) :
                \E source \in sources(r.matches[k].field) :
                  \A t \in 1..Len(tokens) :
                    \A p \in Occurrences(source, tokens[t]) :
                      WrappedAt(r.matches[k].snippet, source, p, Len(tokens[t]))

\* C21 for the queries none of whose terms stands in the text of a marker
C21_WrappedUnlessTermInMarker ==
  (\A t \in 1..Len(tokenize(resp.query)) :
     /\ Occurrences(MarkOpen, tokenize(resp.query)[t]) = {}
     /\ Occurrences(MarkClose, tokenize(resp.query)[t]) = {})
    => C21_EveryOccurrenceWrapped

\* the part of the abstract from `side` characters before the first
\* occurrence of the term to `side` characters after its end
AbstractWindow(abstract, term, side) ==
  LET pos == find(lower(abstract), term)
  IN  SubSeq(abstract, Max(0, pos - side) + 1,
             Min(Len(abstract), pos + Len(term) + side))

\* the window as it is, or with `...` before it, after it or both
WithEllipses(window) ==
  {pre \o window \o post : pre \in {<<>>, Ellipsis}, post \in {<<>>, Ellipsis}}

\* for every abstract match of the response: the cached abstract, the term
\* of the first abstract record of the document (empty when there is none)
\* and the snippet without its markers
AbstractCases ==
  IF resp.kind # "search" THEN {}
  ELSE LET hits == Hits(index, tokenize(resp.query))
           r(i) == resp.results[i]
           rs(i) == FieldRecords(RecordsOf(hits, r(i).paper_id), "abstract")
           cached(i) == papers[r(i).paper_id].abstract
       IN  {[abstract |-> IF cached(i) = None THEN <<>> ELSE cached(i)[1],
             term |-> IF rs(i) = <<>> THEN <<>> ELSE rs(i)[1].token,
             text |-> StripMarkers(MatchesOf(r(i), "abstract")[1].snippet, 1)] :
              i \in {k \in 1..Len(resp.results) :
                       MatchesOf(r(k), "abstract") # <<>>}}

\* C22 as stated: the abstract snippet is the window from 100 characters
\* before the first occurrence of the matched term to 100 characters after
\* its end, cut at the ends of the abstract.
C22_WindowOf100EachSide ==
  \A c \in AbstractCases :
    /\ c.term # <<>>
    /\ contains(lower(c.abstract), c.term) =>
         c.text \in WithEllipses(AbstractWindow(c.abstract, c.term, 100))

\* C22, amended: the window extends 50 characters before the first
\* occurrence of the matched term and 50 characters after its end, cut at
\* the ends of the abstract; when the term does not occur in the cached
\* abstract the snippet is the first 100 characters of the abstract.
C22_WindowOf50EachSide ==
  \A c \in AbstractCases :
    /\ c.term # <<>>
    /\ IF contains(lower(c.abstract), c.term)
         THEN c.text \in WithEllipses(AbstractWindow(c.abstract, c.term, 50))
         ELSE c.text = Prefix(c.abstract, 100)

\* 'dl' stands at 250 of 300: the snippet shows the characters 200 to 300
C22_Witness ==
  /\ resp.kind = "search"
  /\ resp.query = QDl
  /\ added = <<PaperL>>
  /\ Len(resp.results) = 1
  /\ MatchesOf(resp.results[1], "abstract") # <<>>
  /\ StripMarkers(MatchesOf(resp.results[1], "abstract")[1].snippet, 1)
       = Ellipsis \o SubSeq(AbstractL, 201, 300)

EndsWith(s, lit) == Len(lit) <= Len(s) /\ SubSeq(s, Len(s) - Len(lit) + 1, Len(s)) = lit

\* the part of the abstract that the snippet of the case shows: [from, to]
\* with from the place of its first character and to the place after its
\* last one, both counted from 0
ShownPart(c) ==
  LET pos == find(lower(c.abstract), c.term)
  IN  IF pos = -1
        THEN [from |-> 0, to |-> Min(Len(c.abstract), 100)]
        ELSE [from |-> Max(0, pos - 50),
              to |-> Min(Len(c.abstract), pos + Len(c.term) + 50)]

EllipsisWhereCut(c) ==
  /\ StartsAt(c.text, 1, Ellipsis) <=> ShownPart(c).from > 0
  /\ EndsWith(c.text, Ellipsis) <=> ShownPart(c).to < Len(c.abstract)

WasAdded(text, page) ==
  \E j \in 1..Len(added) :
    \E h \in 1..Len(added[j].highlights) :
      /\ added[j].highlights[h].text = text
      /\ added[j].highlights[h].page = page

\* C24: every highlight snippet is the first 200 characters of the highlight
\* text held by the posting, as it was when the posting was added, with the
\* markers put inside that prefix; nothing beyond the 200th character shows,
\* and the match carries the page held by the posting.
C24_HighlightSnippetIsPrefixOf200 ==
  resp.kind = "search" =>
    LET tokens == tokenize(resp.query)
        hits == Hits(index, tokens)
    IN  \A i \in 1..Len(resp.results) :
          LET r == resp.results[i]
              ms == MatchesOf(r, "highlight")
              rs == SelectSeq(FieldRecords(RecordsOf(hits, r.paper_id), "highlight"),
                              LAMBDA rec : rec.text # None /\ rec.text[1] # <<>>)
          IN  /\ Len(ms) = Len(rs)
              /\ \A k \in 1..Len(ms) :
                   LET text == rs[k].text[1]
                   IN  /\ ms[k].page = rs[k].page
                       /\ WasAdded(text, rs[k].page[1])
                       /\ StripMarkers(ms[k].snippet, 1) = SubSeq(text, 1, Min(200, Len(text)))
                       /\ Len(StripMarkers(ms[k].snippet, 1)) <= 200
                       /\ ms[k].snippet
                            = WrapOnce(SubSeq(text, 1, Min(200, Len(text))), tokens, 1)

\* the highlight of 210 characters was replaced by a short one on another
\* page: the old posting still gives the first 200 characters of the old
\* text with 'ml' wrapped, 'dl' cut through and 'nlp' left out, on the old
\* page
C24_Witness ==
  /\ resp.kind = "search"
  /\ resp.query = QMlDl
  /\ added = <<PaperL, PaperL2>>
  /\ Len(resp.results) = 1
  /\ Len(MatchesOf(resp.results[1], "highlight")) = 3
  /\ MatchesOf(resp.results[1], "highlight")[1]
       = [field |-> "highlight",
          snippet |-> MarkOpen \o <<"m", "l">> \o MarkClose \o Fill("-", 197) \o <<"d">>,
          page |-> Some(7)]
  /\ MatchesOf(resp.results[1], "highlight")[3].page = Some(9)

\* the maximal runs of word characters of the text, each as the places of
\* its first and last character
WordRuns(text) ==
  {run \in [from : 1..Len(text), to : 1..Len(text)] :
     /\ run.from <= run.to
     /\ \A k \in run.from..run.to : IsWordChar(text[k])
     /\ run.from = 1 \/ ~IsWordChar(text[run.from - 1])
     /\ run.to = Len(text) \/ ~IsWordChar(text[run.to + 1])}

\* those of at least two characters that are no stopword once lowercased
KeptRuns(text) ==
  {run \in WordRuns(text) :
     /\ run.to - run.from + 1 >= 2
     /\ lower(SubSeq(text, run.from, run.to)) \notin STOPWORDS}

\* C25: tokenize fails on no input and returns the lowercased maximal runs
\* of word characters that are no stopword and have at least two
\* characters, in the order of the input and with repetitions kept; nothing
\* for the empty input, and quick, brown, fox, nature2024 for
\* "The Quick-Brown Fox's Nature2024!".
C25_TokenizeGivesKeptWords ==
  resp.kind = "tokenize" =>
    LET text == resp.query
        kept == KeptRuns(text)
    IN  /\ resp.status = "success"
        /\ Len(resp.tokens) = Cardinality(kept)
        /\ \A run \in kept :
             resp.tokens[1 + Cardinality({q \in kept : q.from < run.from})]
               = lower(SubSeq(text, run.from, run.to))
        /\ text = <<>> => resp.tokens = <<>>
        /\ text = TextExample =>
             resp.tokens = << <<"q", "u", "i", "c", "k">>,
                              <<"b", "r", "o", "w", "n">>,
                              <<"f", "o", "x">>,
                              <<"n", "a", "t", "u", "r", "e", "2", "0", "2", "4">> >>

C25_Witness ==
  /\ resp.kind = "tokenize"
  /\ resp.query = TextExample
  /\ Len(resp.tokens) = 4
  /\ resp.tokens[4] = <<"n", "a", "t", "u", "r", "e", "2", "0", "2", "4">>

\* the document of the last add_paper for this id since the last clear
LastAdded(paper_id) == AddedFor(paper_id)[Len(AddedFor(paper_id))]

\* C26: the cache holds, for every id, the document of the last add_paper
\* for it and nothing of the ones before; every result reports that
\* document's title and cuts its title, tag, author and abstract snippets
\* from that document, whichever add_paper left the posting that matched.
C26_CacheHoldsLastAdded ==
  /\ DOMAIN papers = {added[j].id : j \in 1..Len(added)}
  /\ \A paper_id \in DOMAIN papers : papers[paper_id] = LastAdded(paper_id)
  /\ resp.kind = "search" =>
       LET hits == Hits(index, tokenize(resp.query))
       IN  \A i \in 1..Len(resp.results) :
             LET r == resp.results[i]
                 d2 == LastAdded(r.paper_id)
                 records == RecordsOf(hits, r.paper_id)
             IN  /\ r.title = d2.title
                 /\ \A k \in 1..Len(r.matches) :
                      r.matches[k].field \in ScalarFields =>
                        \E n \in 1..Len(records) :
                          /\ records[n].field = r.matches[k].field
                          /\ r.matches[k].snippet
                               = generate_snippet(d2, records[n], resp.query)

\* the paper titled 'nlp' was added again as 'ML of dl': 'nlp' finds it
\* through the old posting and shows the new title, unmarked
C26_Witness ==
  /\ resp.kind = "search"
  /\ resp.query = QNlp
  /\ added = <<PaperA2, PaperA>>
  /\ Len(resp.results) = 1
  /\ resp.results[1].title = TitleA
  /\ MatchesOf(resp.results[1], "title")
       = <<[field |-> "title", snippet |-> TitleA, page |-> None]>>

\* the fixed weight of each field
FieldWeight ==
  [field \in ScalarFields \cup {"highlight"} |->
     CASE field = "title" -> 10
       [] field = "tag" -> 8
       [] field = "author" -> 7
       [] field = "highlight" -> 6
       [] field = "abstract" -> 4]

\* C27: a posting carries a page and a highlight text exactly when its
\* field is highlight, and otherwise nothing beyond id, field and weight;
\* its weight is the fixed weight of its field; a match of a search result
\* has a page exactly when its field is highlight.
C27_PayloadOnlyForHighlight ==
  /\ \A term \in DOMAIN index :
       \A i \in 1..Len(index[term]) :
         LET entry == index[term][i]
         IN  /\ entry[2] \in DOMAIN FieldWeight
             /\ entry[3] = FieldWeight[entry[2]]
             /\ Len(entry) = IF entry[2] = "highlight" THEN 5 ELSE 3
             /\ entry[2] = "highlight" => WasAdded(entry[5], entry[4])
  /\ resp.kind = "search" =>
       \A i \in 1..Len(resp.results) :
         \A k \in 1..Len(resp.results[i].matches) :
           LET match == resp.results[i].matches[k]
           IN  match.page # None <=> match.field = "highlight"

\* a result with a highlight match on page 3 beside a title match
C27_Witness ==
  /\ resp.kind = "search"
  /\ resp.query = QMl
  /\ \E i \in 1..Len(resp.results) :
       /\ MatchesOf(resp.results[i], "highlight")
            = <<[field |-> "highlight", snippet |-> HlTextA, page |-> Some(3)]>>
       /\ MatchesOf(resp.results[i], "title") # <<>>
       /\ MatchesOf(resp.results[i], "title")[1].page = None

\* the texts of the cached document that a snippet of the field can be cut
\* from for this term: the title, the tags and the author names that hold
\* the term, the abstract
SourcesFor(paper, field, term) ==
  CASE field = "title" -> {paper.title} \ {<<>>}
    [] field = "tag" ->
         {paper.tags[i] : i \in {k \in 1..Len(paper.tags) :
                                   contains(lower(paper.tags[k]), term)}}
    [] field = "author" ->
         {paper.authors[i].name :
            i \in {k \in 1..Len(paper.authors) :
                     contains(lower(paper.authors[k].name), term)}}
    [] field = "abstract" ->
         IF paper.abstract = None THEN {} ELSE {paper.abstract[1]} \ {<<>>}
    [] OTHER -> {}

\* C28: no match of a search result has an empty snippet; a field all of
\* whose match records have no text to cut a snippet from gives no match,
\* and the weights of those records are in the score all the same.
C28_NoEmptySnippet ==
  resp.kind = "search" =>
    LET tokens == tokenize(resp.query)
        hits == Hits(index, tokens)
    IN  \A i \in 1..Len(resp.results) :
          LET r == resp.results[i]
              records == RecordsOf(hits, r.paper_id)
          IN  /\ \A k \in 1..Len(r.matches) : r.matches[k].snippet # <<>>
              /\ \A field \in ScalarFields :
                   (\A n \in 1..Len(records) :
                      records[n].field = field =>
                        SourcesFor(papers[r.paper_id], field, records[n].token) = {})
                     => MatchesOf(r, field) = <<>>
              /\ r.score = ExpectedScore(index, tokens, r.paper_id)

\* the paper titled 'mark up' and tagged 'up' was added again as 'Dl-ml x'
\* tagged 'nlp': 'up' scores 18 through the two old postings, and no tag
\* holds it, so there is a title match and no tag match
C28_Witness ==
  /\ resp.kind = "search"
  /\ resp.query = QUp
  /\ added = <<PaperD, PaperB>>
  /\ Len(resp.results) = 1
  /\ resp.results[1].score = 18
  /\ resp.results[1].matches
       = <<[field |-> "title", snippet |-> TitleB, page |-> None]>>

\* C29: a search raises nothing and leaves the posting map, its keys and
\* every posting list, and the document cache as they were, whether or not
\* the index holds the terms of the query.
C29_SearchIsReadOnly ==
  [][resp'.kind = "search" =>
       /\ resp'.status = "success"
       /\ DOMAIN index' = DOMAIN index
       /\ \A term \in DOMAIN index : index'[term] = index[term]
       /\ papers' = papers
       /\ after_search(Index, resp'.query, resp'.limit) = Index]_vars

\* a search for a term under which nothing is filed, in an index that
\* holds postings
C29_Witness ==
  /\ resp.kind = "search"
  /\ resp.query = QAbsent
  /\ resp.results = <<>>
  /\ index # EmptyMap
  /\ \A t \in 1..Len(tokenize(QAbsent)) : tokenize(QAbsent)[t] \notin DOMAIN index

\* C30: an import that answers about a paper the library already holds
\* answers `duplicate` and changes neither the store nor the index, so that
\* no paper is written and indexed by two imports; also when the two
\* requests for the DOI were in flight together.
C30_ImportOfKnownDoiIsDuplicate ==
  [][(/\ resp'.kind = "import"
      /\ resp'.paper_id # None
      /\ paper_exists(Store, resp'.paper_id[1])) =>
       /\ resp'.status = "duplicate"
       /\ UNCHANGED <<files, dirOrder, pdfs, texts, papers, index>>]_vars

====
